---- MODULE Spec2Model ----
(***************************************************************************)
(* Model of the Teneo-LPVP loan pipeline: loan segmentation                *)
(* (input_data/datatape_segmentation.py), combination of the floating and  *)
(* fixed groups (loan_input.py), risk-curve assignment                     *)
(* (input_data/combined_risk.py) and fixed-assumption enrichment           *)
(* (input_data/fixed_dfs.py, loan_input.py).                               *)
(*                                                                         *)
(* A table (DataFrame) is a sequence of rows (records); a cell is a record *)
(* [k, n, s]: k is the Python type of the value ("nan" a missing float,    *)
(* "nat" a missing timestamp, "ts" a Timestamp on day n, "num" the number  *)
(* n, "str" a string).  A string is the sequence s of its pieces: a piece  *)
(* is one blank " " or a run of text that neither starts nor ends with a   *)
(* blank, so that strip() and lower() are computed, not assumed.  A number  *)
(* is held in hundredths: Num(14) is 0.14 and Num(100) is 1.               *)
(***************************************************************************)
EXTENDS Integers, Sequences, FiniteSets, TLC

VARIABLES
    \* ---- risk-curve assignment (combined_risk.py)
    loans,              \* loans_df of one bucket
    risk_lookup,        \* risk_lookup: loan type -> dates / cost_risk / prepay_risk
    cpu_count,          \* mp.cpu_count()
    rpc,                \* position in assign_combined_risk_rates
    chunks,             \* the chunks of _process_loans_parallel
    chunk_status,       \* per chunk: "queued", "running" or "done"
    processed_chunks,   \* per chunk: the table _process_chunk returned
    result,             \* result[type_key]
    \* ---- segmentation and combination (datatape_segmentation.py, loan_input.py)
    datatape_df,        \* the input loan table
    has_past_due,       \* whether the table has a 'Past Due Date' column
    guarantees_df,      \* whether the file name holds 'complex', and its sheet GuaranteesConso
    spc,                \* position in the pipeline
    seg_locals,         \* locals of process_loans_dataframe_segmentation at its return
    complete_results,   \* what process_loans_dataframe_segmentation returned
    combined_loans,     \* what combine_floating_fixed returned
    \* ---- fixed-assumption enrichment (fixed_dfs.py, loan_input.py)
    epc,                \* position in main_processing_pipeline_from_streams
    combined_with_risks,\* the four buckets handed to the enrichment
    futures,            \* per bucket: state of its process_type task
    enriched_loans,     \* enriched_loans of enrich_loans_with_fixed_assumptions_parallel
    join_pos,           \* the future the join loop waits for
    raised,             \* the exception the enrichment raised, or "none"
    combined_with_fixed,\* what the pipeline returns as its first component
    \* ---- rate curves (index_rate_calculation.py, fixed_rate_calculation.py)
    floating_df,        \* the floating loans of one bucket
    assumptions_dict,   \* index name -> the index curve, date key -> rate
    fixed_df,           \* the fixed loans of one bucket
    rates_pc,           \* position in the pipeline
    floating_results,   \* what process_floating_calculations returned
    fixed_results,      \* what process_fixed_loans_dataframe returned
    \* ---- date grid of the assumption template (assumption.py)
    valuation_date,     \* valuation_date
    max_maturity_date,  \* max_maturity_date
    dates,              \* dates of generate_month_end_dates_list
    current,            \* current of generate_month_end_dates_list
    grid_pc,            \* position in generate_month_end_dates_list
    \* ---- assumption tables (input_data/assumption_tables.py)
    df_sheet,           \* the sheet, read without header
    table_name,         \* the table looked for in column A
    table_dict,         \* what _read_single_table returned
    loader_pc,          \* position in _read_single_table
    \* ---- the percent normalization of one value (_safe_convert_value)
    source_value,       \* the source value
    normalized,         \* _safe_convert_value(source_value)
    renormalized,       \* _safe_convert_value of that
    norm_pc,            \* how many times the value was converted
    \* ---- the risk lookup (combined_risk.py, _create_optimized_risk_lookup)
    cost_risk_df,       \* the cost-of-risk table, as a mapping or as a wide table
    prepayment_risk_df, \* the prepayment-risk table, in the same way
    lookup_pc           \* position in assign_combined_risk_rates

riskVars == <<loans, risk_lookup, cpu_count, rpc, chunks, chunk_status,
              processed_chunks, result>>
segVars == <<datatape_df, has_past_due, guarantees_df, spc, seg_locals,
             complete_results, combined_loans>>
enrichVars == <<epc, combined_with_risks, futures, enriched_loans, join_pos,
                raised, combined_with_fixed>>
ratesVars == <<floating_df, assumptions_dict, fixed_df, rates_pc, floating_results,
               fixed_results>>
gridVars == <<valuation_date, max_maturity_date, dates, current, grid_pc>>
loaderVars == <<df_sheet, table_name, table_dict, loader_pc>>
normVars == <<source_value, normalized, renormalized, norm_pc>>
lookupVars == <<cost_risk_df, prepayment_risk_df, lookup_pc>>
vars == <<riskVars, segVars, enrichVars, ratesVars, gridVars, loaderVars,
         normVars, lookupVars>>

----------------------------------------------------------------------------
(* Bounds of the model *)

\* longest loan table enumerated row by row
MaxLoans == 3
\* longest row pattern repeated to fill a table above the parallel threshold
MaxPattern == 2
\* longest loan table handed to the segmentation
MaxRows == 2
\* longest bucket handed to the fixed-assumption enrichment
MaxBucketRows == 1
\* longest table of floating or of fixed loans handed to the rate-curve stage
MaxRateRows == 2
\* most data rows of an assumption table in the sheet
MaxSheetRows == 1
\* the largest source value of the percent normalization, in hundredths
MaxHundredths == 150

----------------------------------------------------------------------------
(* Cells *)

NaN == [k |-> "nan", n |-> 0, s |-> <<>>]
NaT == [k |-> "nat", n |-> 0, s |-> <<>>]
Ts(d) == [k |-> "ts", n |-> d, s |-> <<>>]
Num(x) == [k |-> "num", n |-> x, s |-> <<>>]
Str(pieces) == [k |-> "str", n |-> 0, s |-> pieces]

\* pd.isna
IsNa(c) == c.k \in {"nan", "nat"}

\* the texts of the model that pandas parses as a date, with their day
DateTexts == ("2021-01-31" :> 1) @@ ("2021-02-28" :> 2)

\* pd.to_datetime(..., errors="coerce") on the cells of the model: a Timestamp
\* stays, a text that is a date becomes its Timestamp, a number is read as
\* nanoseconds after the epoch (day 0), a missing value and a text that is no
\* date become NaT.
ToDatetimeCoerce(c) ==
    IF c.k = "ts" THEN c
    ELSE IF c.k = "num" THEN Ts(0)
    ELSE IF c.k = "str" /\ Len(c.s) = 1 /\ c.s[1] \in DOMAIN DateTexts
         THEN Ts(DateTexts[c.s[1]])
    ELSE NaT

\* the sequence f(s[1]), ..., f(s[n])
Map(f(_), s) == [i \in 1..Len(s) |-> f(s[i])]

Min(a, b) == IF a <= b THEN a ELSE b
Max(a, b) == IF a >= b THEN a ELSE b

RECURSIVE SetToSortedSeq(_)
SetToSortedSeq(S) ==
    IF S = {} THEN <<>>
    ELSE LET m == CHOOSE x \in S : \A y \in S : x <= y
         IN <<m>> \o SetToSortedSeq(S \ {m})

RECURSIVE Flatten(_)
Flatten(ss) == IF ss = <<>> THEN <<>> ELSE Head(ss) \o Flatten(Tail(ss))

----------------------------------------------------------------------------
(* Risk-curve assignment: input_data/combined_risk.py *)

\* if len(loans_df) > 1000
ParallelThreshold == 1000
\* chunk_size = max(100, ...)
MinChunkSize == 100

\* json.dumps({"Date": [], "Cost of Risk": [], "Prepayment Risk": []})
EmptyRiskJson == [Date |-> <<>>, CostOfRisk |-> <<>>, PrepaymentRisk |-> <<>>]

\* strftime("%Y-%m-%d") of a lookup date
DateString(d) == <<"ymd", d>>

\* positions of the lookup entries kept by mask = dates <= maturity_date
MaskedPositions(risk_data, maturity_date) ==
    SetToSortedSeq({i \in 1..Len(risk_data.dates) :
                        risk_data.dates[i] <= maturity_date.n})

AllPositions(risk_data) == [i \in 1..Len(risk_data.dates) |-> i]

RiskJsonAt(risk_data, pos) ==
    [Date |-> [i \in 1..Len(pos) |-> DateString(risk_data.dates[pos[i]])],
     CostOfRisk |-> [i \in 1..Len(pos) |-> risk_data.cost_risk[pos[i]]],
     PrepaymentRisk |-> [i \in 1..Len(pos) |-> risk_data.prepay_risk[pos[i]]]]

\* _create_single_risk_json_fast
CreateSingleRiskJsonFast(maturity_date, risk_data) ==
    IF IsNa(maturity_date)
    THEN RiskJsonAt(risk_data, AllPositions(risk_data))
    ELSE RiskJsonAt(risk_data, MaskedPositions(risk_data, maturity_date))

\* _create_risk_rates_batch: one risk json per row of loans_subset, in its order
CreateRiskRatesBatch(loans_subset, risk_data) ==
    [i \in 1..Len(loans_subset) |->
        IF IsNa(loans_subset[i].maturity)
        THEN RiskJsonAt(risk_data, AllPositions(risk_data))
        ELSE RiskJsonAt(risk_data, MaskedPositions(risk_data, loans_subset[i].maturity))]

\* loans_copy["Maturity Date"] = pd.to_datetime(..., errors="coerce")
CoerceMaturity(df) ==
    [i \in 1..Len(df) |-> [df[i] EXCEPT !.maturity = ToDatetimeCoerce(@)]]

\* loans_copy["Type of Loan"].unique(): the types in order of first appearance
UniqueTypes(df) ==
    LET firsts == {i \in 1..Len(df) : \A j \in 1..(i - 1) : df[j].type # df[i].type}
        order == SetToSortedSeq(firsts)
    IN [i \in 1..Len(order) |-> df[order[i]].type]

\* the batch of one loan type in _process_loans_vectorized
TypeBatch(df, lookup, loan_type) ==
    LET type_loans == SelectSeq(df, LAMBDA r : r.type = loan_type)
    IN IF loan_type \notin DOMAIN lookup
       THEN [i \in 1..Len(type_loans) |-> EmptyRiskJson]
       ELSE CreateRiskRatesBatch(type_loans, lookup[loan_type])

\* risk_rates_list of _process_loans_vectorized: the batches of the loan types,
\* one after the other
RiskRatesList(df, lookup) ==
    LET types == UniqueTypes(df)
    IN Flatten([t \in 1..Len(types) |-> TypeBatch(df, lookup, types[t])])

\* loans_copy["risk_rates"] = risk_rates_list: the list is assigned by position
AssignRiskRates(df, risk_rates_list) ==
    [i \in 1..Len(df) |->
        [rid |-> df[i].rid, type |-> df[i].type, maturity |-> df[i].maturity,
         risk_rates |-> risk_rates_list[i]]]

\* _process_loans_vectorized
ProcessLoansVectorized(loans_df, lookup) ==
    LET loans_copy == CoerceMaturity(loans_df)
    IN AssignRiskRates(loans_copy, RiskRatesList(loans_copy, lookup))

\* the risk json _process_chunk computes for one row
ChunkRowRiskJson(loan_row, lookup) ==
    IF loan_row.type \notin DOMAIN lookup
    THEN EmptyRiskJson
    ELSE CreateSingleRiskJsonFast(loan_row.maturity, lookup[loan_row.type])

\* _process_chunk
ProcessChunk(chunk_df, lookup) ==
    AssignRiskRates(chunk_df,
                    [i \in 1..Len(chunk_df) |-> ChunkRowRiskJson(chunk_df[i], lookup)])

\* chunk_size = max(100, len(loans_copy) // mp.cpu_count())
ChunkSize(n, cpus) == Max(MinChunkSize, n \div cpus)

\* range(0, len(loans_copy), chunk_size), as the 1-based first row of each chunk
ChunkStarts(n, size) == {i \in 1..n : (i - 1) % size = 0}

\* SplitChunks with the slice one row too long: loans_copy[i:i + chunk_size + 1]
SplitChunksOverlapping(loans_copy, size) ==
    LET starts == SetToSortedSeq(ChunkStarts(Len(loans_copy), size))
    IN [c \in 1..Len(starts) |->
            SubSeq(loans_copy, starts[c], Min(starts[c] + size, Len(loans_copy)))]

\* chunks = [loans_copy[i:i + chunk_size] for i in range(0, len(loans_copy), chunk_size)]
SplitChunks(loans_copy, size) ==
    LET starts == SetToSortedSeq(ChunkStarts(Len(loans_copy), size))
    IN [c \in 1..Len(starts) |->
            SubSeq(loans_copy, starts[c], Min(starts[c] + size - 1, Len(loans_copy)))]

\* pd.concat(processed_chunks, ignore_index=True)
ConcatChunks(processed) == Flatten(processed)

\* the table _process_loans_parallel returns: executor.map yields the chunk
\* results in the order of chunks
ProcessLoansParallel(loans_df, lookup, cpus) ==
    LET parts == SplitChunks(CoerceMaturity(loans_df), ChunkSize(Len(loans_df), cpus))
    IN ConcatChunks([c \in 1..Len(parts) |-> ProcessChunk(parts[c], lookup)])

----------------------------------------------------------------------------
(* Inputs of the risk-curve assignment *)

\* loan types of the bucket: "Other" and "Factoring" have risk curves, "Mystery"
\* has none
RiskLoanTypes == {"Other", "Factoring", "Mystery"}

\* 'Maturity Date' cells as they reach assign_combined_risk_rates
RiskMaturities == {NaN, Ts(1)}

RiskRowKinds == [type : RiskLoanTypes, maturity : RiskMaturities]

RiskPatterns(n) == UNION {[1..k -> RiskRowKinds] : k \in 0..n}

\* the table of n rows that repeats the pattern; rid is the row's place in the input
TableOf(pattern, n) ==
    [i \in 1..n |->
        [rid |-> i,
         type |-> pattern[((i - 1) % Len(pattern)) + 1].type,
         maturity |-> pattern[((i - 1) % Len(pattern)) + 1].maturity]]

\* table sizes: the pattern itself, and the first size above the parallel threshold
TableSizes(pattern) ==
    {Len(pattern)} \cup
    (IF Len(pattern) > 0 /\ Len(pattern) <= MaxPattern
     THEN {ParallelThreshold + 1} ELSE {})

\* risk lookups as _create_optimized_risk_lookup builds them: per loan type the
\* dates in ascending order with the two rates of each date
RiskLookups ==
    {[Other |-> [dates |-> <<1, 2>>, cost_risk |-> <<10, 20>>, prepay_risk |-> <<1, 2>>],
      Factoring |-> [dates |-> <<1, 2>>, cost_risk |-> <<30, 40>>, prepay_risk |-> <<3, 4>>]],
     [Other |-> [dates |-> <<2>>, cost_risk |-> <<50>>, prepay_risk |-> <<0>>],
      Factoring |-> [dates |-> <<1>>, cost_risk |-> <<0>>, prepay_risk |-> <<5>>]]}

CpuCounts == {1, 2}

RiskIdle ==
    /\ loans = <<>>
    /\ risk_lookup = <<>>
    /\ cpu_count = 0
    /\ rpc = "idle"
    /\ chunks = <<>>
    /\ chunk_status = <<>>
    /\ processed_chunks = <<>>
    /\ result = <<>>

RiskInit ==
    /\ \E p \in RiskPatterns(MaxLoans) : \E n \in TableSizes(p) : loans = TableOf(p, n)
    /\ risk_lookup \in RiskLookups
    /\ cpu_count \in CpuCounts
    /\ rpc = "start"
    /\ chunks = <<>>
    /\ chunk_status = <<>>
    /\ processed_chunks = <<>>
    /\ result = <<>>

----------------------------------------------------------------------------
(* assign_combined_risk_rates on one bucket *)

\* the sequential branch: an empty bucket gives an empty table, a bucket of at
\* most 1000 loans goes through _process_loans_vectorized
AssignVectorized ==
    /\ rpc = "start"
    /\ ~(Len(loans) > ParallelThreshold)
    /\ result' = IF loans = <<>> THEN <<>>
                 ELSE ProcessLoansVectorized(loans, risk_lookup)
    /\ rpc' = "done"
    /\ UNCHANGED <<loans, risk_lookup, cpu_count, chunks, chunk_status, processed_chunks>>
    /\ UNCHANGED <<segVars, enrichVars, ratesVars, gridVars, loaderVars, normVars, lookupVars>>

\* _process_loans_parallel up to executor.map: the chunks are cut and submitted
SubmitChunks ==
    /\ rpc = "start"
    /\ Len(loans) > ParallelThreshold
    /\ chunks' = SplitChunks(CoerceMaturity(loans), ChunkSize(Len(loans), cpu_count))
    /\ chunk_status' = [c \in 1..Len(chunks') |-> "queued"]
    /\ processed_chunks' = [c \in 1..Len(chunks') |-> <<>>]
    /\ rpc' = "workers"
    /\ UNCHANGED <<loans, risk_lookup, cpu_count, result>>
    /\ UNCHANGED <<segVars, enrichVars, ratesVars, gridVars, loaderVars, normVars, lookupVars>>

\* a free worker of ThreadPoolExecutor(max_workers=mp.cpu_count()) takes the
\* first queued chunk
StartChunk(c) ==
    /\ rpc = "workers"
    /\ chunk_status[c] = "queued"
    /\ \A d \in 1..(c - 1) : chunk_status[d] # "queued"
    /\ Cardinality({d \in 1..Len(chunks) : chunk_status[d] = "running"}) < cpu_count
    /\ chunk_status' = [chunk_status EXCEPT ![c] = "running"]
    /\ UNCHANGED <<loans, risk_lookup, cpu_count, rpc, chunks, processed_chunks, result>>
    /\ UNCHANGED <<segVars, enrichVars, ratesVars, gridVars, loaderVars, normVars, lookupVars>>

\* a worker returns from _process_chunk; executor.map files the table under the
\* chunk's place in chunks
FinishChunk(c) ==
    /\ rpc = "workers"
    /\ chunk_status[c] = "running"
    /\ chunk_status' = [chunk_status EXCEPT ![c] = "done"]
    /\ processed_chunks' = [processed_chunks EXCEPT ![c] = ProcessChunk(chunks[c], risk_lookup)]
    /\ UNCHANGED <<loans, risk_lookup, cpu_count, rpc, chunks, result>>
    /\ UNCHANGED <<segVars, enrichVars, ratesVars, gridVars, loaderVars, normVars, lookupVars>>

\* list(executor.map(...)) is complete: pd.concat(processed_chunks, ignore_index=True)
ConcatResult ==
    /\ rpc = "workers"
    /\ \A c \in 1..Len(chunks) : chunk_status[c] = "done"
    /\ result' = ConcatChunks(processed_chunks)
    /\ rpc' = "done"
    /\ UNCHANGED <<loans, risk_lookup, cpu_count, chunks, chunk_status, processed_chunks>>
    /\ UNCHANGED <<segVars, enrichVars, ratesVars, gridVars, loaderVars, normVars, lookupVars>>

RiskNext ==
    \/ AssignVectorized
    \/ SubmitChunks
    \/ \E c \in 1..Len(chunks) : StartChunk(c)
    \/ \E c \in 1..Len(chunks) : FinishChunk(c)
    \/ ConcatResult

----------------------------------------------------------------------------
(* Strings *)

Blank == " "

RECURSIVE LStrip(_)
LStrip(p) == IF p # <<>> /\ Head(p) = Blank THEN LStrip(Tail(p)) ELSE p

RECURSIVE RStrip(_)
RStrip(p) ==
    IF p # <<>> /\ p[Len(p)] = Blank THEN RStrip(SubSeq(p, 1, Len(p) - 1)) ELSE p

\* str.strip()
Strip(p) == RStrip(LStrip(p))

\* str.lower() of one piece, for the pieces of the model that hold a capital
LowerPiece(x) ==
    CASE x = "Not Available" -> "not available"
      [] x = "NOT APPLICABLE" -> "not applicable"
      [] x = "Not applicable" -> "not applicable"
      [] x = "NaN" -> "nan"
      [] x = "NULL" -> "null"
      [] x = "TBD" -> "tbd"
      [] OTHER -> x

\* str.lower()
Lower(p) == [i \in 1..Len(p) |-> LowerPiece(p[i])]

----------------------------------------------------------------------------
(* Segmentation: input_data/datatape_segmentation.py *)

\* calculation_types with the buckets 3 and 4 of the fee tables for the special
\* loan types
CalculationTypesWithNumberedSpecials ==
    ("Medium / Long Term Loan" :> "1") @@ ("RE Leasing" :> "1") @@
    ("Overdraft" :> "3") @@ ("Syndicated Loan" :> "1") @@
    ("Factoring" :> "1") @@ ("Residential Mortgage" :> "1") @@
    ("Credit Card" :> "4") @@ ("Corporate/ Development Loan" :> "1") @@
    ("Current Account" :> "3") @@ ("Non RE Leasing" :> "1") @@
    ("Discounted Bill/ Note" :> "2") @@ ("Consumer Loan" :> "1") @@
    ("Other" :> "1") @@ ("Trade Finance" :> "1") @@
    ("Restructured Loan" :> "1") @@ ("Uncalled Bank Guarantee" :> "Asset") @@
    ("Called Bank Guarantee" :> "non-performing")

\* calculation_types of group_by_calculation_type
CalculationTypes ==
    ("Medium / Long Term Loan" :> "1") @@ ("RE Leasing" :> "1") @@
    ("Overdraft" :> "Special") @@ ("Syndicated Loan" :> "1") @@
    ("Factoring" :> "1") @@ ("Residential Mortgage" :> "1") @@
    ("Credit Card" :> "Special") @@ ("Corporate/ Development Loan" :> "1") @@
    ("Current Account" :> "Special") @@ ("Non RE Leasing" :> "1") @@
    ("Discounted Bill/ Note" :> "2") @@ ("Consumer Loan" :> "1") @@
    ("Other" :> "1") @@ ("Trade Finance" :> "1") @@
    ("Restructured Loan" :> "1") @@ ("Uncalled Bank Guarantee" :> "Asset") @@
    ("Called Bank Guarantee" :> "non-performing")

\* astype(str): a string stays, a missing value becomes the text 'nan'
AsTypeStr(c) == IF c.k = "str" THEN c.s ELSE <<"nan">>

\* TypeOfCalculation without the .fillna('Not Found')
TypeOfCalculationNoFillna(stripped) ==
    IF Len(stripped) = 1 /\ stripped[1] \in DOMAIN CalculationTypes
    THEN CalculationTypes[stripped[1]]
    ELSE "nan"

\* .map(calculation_types).fillna('Not Found') on a stripped loan type
TypeOfCalculation(stripped) ==
    IF Len(stripped) = 1 /\ stripped[1] \in DOMAIN CalculationTypes
    THEN CalculationTypes[stripped[1]]
    ELSE "Not Found"

\* the two column assignments of group_by_calculation_type
AssignCalculationType(pl_df) ==
    [i \in 1..Len(pl_df) |->
        LET stripped == Strip(AsTypeStr(pl_df[i].type))
        IN [row |-> pl_df[i].row, id |-> pl_df[i].id, type |-> Str(stripped),
            rate_type |-> pl_df[i].rate_type, maturity |-> pl_df[i].maturity,
            balance |-> pl_df[i].balance, past_due |-> pl_df[i].past_due,
            guarantee |-> pl_df[i].guarantee,
            calc |-> TypeOfCalculation(stripped)]]

\* grouped.get(label) on the groups of pl_df.groupby('Type of Calculation'), an
\* absent group being empty
GroupByCalculationType(pl_df, label) ==
    SelectSeq(pl_df, LAMBDA r : r.calc = label)

\* floating_dataset with the mask compared without regard to case
FloatingDatasetAnyCase(df) ==
    SelectSeq(df, LAMBDA r : r.rate_type \in {"Floating", "floating", "FLOATING"})
\* group_by_rate_type: floating_dataset and nonfloating_dataset
FloatingDataset(df) == SelectSeq(df, LAMBDA r : r.rate_type = "Floating")
\* NonFloatingDataset without the mask: df.copy()
NonFloatingDatasetUnmasked(df) == df
NonFloatingDataset(df) == SelectSeq(df, LAMBDA r : ~(r.rate_type = "Floating"))

\* problematic_values and special_loan_types of check_problematic_loans
ProblematicValues ==
    {<<"not available">>, <<"not applicable">>, <<>>, <<"nan">>, <<"null">>}
SpecialLoanTypes == {<<"Current Account">>, <<"Overdraft">>, <<"Credit Card">>}

\* maturity_problematic without the .lower()
MaturityProblematicCaseSensitive(loan) ==
    IsNa(loan.maturity)
    \/ (loan.maturity.k = "str" /\ Strip(loan.maturity.s) \in ProblematicValues)

MaturityProblematic(loan) ==
    IsNa(loan.maturity)
    \/ (loan.maturity.k = "str" /\ Strip(Lower(loan.maturity.s)) \in ProblematicValues)

LoanTypeNotSpecial(loan) ==
    ~(loan.type.k = "str" /\ Strip(loan.type.s) \in SpecialLoanTypes)

OutstandingProblematic(loan) ==
    IsNa(loan.balance)
    \/ (loan.balance.k = "str" /\ Strip(Lower(loan.balance.s)) \in ProblematicValues)
    \/ (loan.balance.k = "num" /\ loan.balance.n = 0)

\* check_problematic_loans: the rows of problematic_df
CheckProblematicLoans(pl_dataset) ==
    SelectSeq(pl_dataset, LAMBDA loan : /\ MaturityProblematic(loan)
                                        /\ LoanTypeNotSpecial(loan)
                                        /\ OutstandingProblematic(loan))

\* pd.to_numeric(..., errors='coerce').fillna(0) of one guarantee cell
GuaranteeValue(c) == IF c.k = "num" THEN c.n ELSE 0

SetMax(S) == CHOOSE x \in S : \A y \in S : y <= x
SetMin(S) == CHOOSE x \in S : \A y \in S : x <= y

\* the ids whose first guarantee value is > 0
GroupByGuaranteesFirst(df) ==
    LET ids == {df[i].id : i \in 1..Len(df)}
        first(id) == CHOOSE i \in 1..Len(df) :
                        df[i].id = id /\ \A j \in 1..(i - 1) : df[j].id # id
    IN {id \in ids : GuaranteeValue(df[first(id)].guarantee) > 0}

\* group_by_guarantees: the ids whose largest guarantee value is > 0
GroupByGuarantees(df) ==
    LET ids == {df[i].id : i \in 1..Len(df)}
        aggregated(id) ==
            SetMax({GuaranteeValue(df[i].guarantee) :
                        i \in {j \in 1..Len(df) : df[j].id = id}})
    IN {id \in ids : aggregated(id) > 0}

\* df['Guarantee current value'] = pd.to_numeric(...).fillna(0) on NPL_dataset
NumericGuarantees(df) ==
    [i \in 1..Len(df) |-> [df[i] EXCEPT !.guarantee = Num(GuaranteeValue(@))]]

\* guarantees_df[guarantees_df['Unique Loan ID'].isin(NPL_dataset['Unique Loan ID'])]
NplGuarantees(sheet, npl_dataset) ==
    SelectSeq(sheet, LAMBDA g : g.id \in {npl_dataset[i].id : i \in 1..Len(npl_dataset)})

\* split_npls: the guarantee values are those of the sheet GuaranteesConso when
\* the file name holds 'complex', and those of the loan table's own column
\* (made numeric in place) otherwise
SplitNpls(npl_dataset, guarantees) ==
    LET with_guarantees_ids ==
            IF guarantees.complex
            THEN GroupByGuarantees(NplGuarantees(guarantees.rows, npl_dataset))
            ELSE GroupByGuarantees(npl_dataset)
        npl == IF guarantees.complex THEN npl_dataset
               ELSE NumericGuarantees(npl_dataset)
    IN [with_guarantees |-> SelectSeq(npl, LAMBDA r : r.id \in with_guarantees_ids),
        without_guarantees |-> SelectSeq(npl, LAMBDA r : ~(r.id \in with_guarantees_ids))]

\* split_pls on PL_dataset once group_by_calculation_type has added its columns
SplitPls(pl_dataset) ==
    [floating |-> [i \in 1..4 |-> FloatingDataset(
                        GroupByCalculationType(pl_dataset, ToString(i)))],
     fixed |-> [i \in 1..4 |-> NonFloatingDataset(
                        GroupByCalculationType(pl_dataset, ToString(i)))],
     assets |-> GroupByCalculationType(pl_dataset, "Asset"),
     special |-> GroupByCalculationType(pl_dataset, "Special")]

\* datatape_df['Past Due Date'] = pd.to_datetime(..., errors='coerce').fillna(0)
FillNaZero(c) == IF IsNa(c) THEN Num(0) ELSE c
CoercePastDueNoFill(df) ==
    [i \in 1..Len(df) |-> [df[i] EXCEPT !.past_due = ToDatetimeCoerce(@)]]
CoercePastDue(df) ==
    [i \in 1..Len(df) |-> [df[i] EXCEPT !.past_due = FillNaZero(ToDatetimeCoerce(@))]]

\* mask = datatape_df['Past Due Date'] == 0
PastDueIsZero(r) == r.past_due.k = "num" /\ r.past_due.n = 0

\* PL_dataset and NPL_dataset, with and without a 'Past Due Date' column
PLDataset(df, with_column) ==
    IF with_column THEN SelectSeq(CoercePastDue(df), PastDueIsZero) ELSE df
NPLDataset(df, with_column) ==
    IF with_column THEN SelectSeq(CoercePastDue(df), LAMBDA r : ~PastDueIsZero(r))
    ELSE <<>>

\* PL_dataset[~PL_dataset['Unique Loan ID'].isin(loan_ids_to_remove)]
RemoveProblematic(pl_dataset, problematic_loans) ==
    LET loan_ids_to_remove == {problematic_loans[i].id : i \in 1..Len(problematic_loans)}
    IN SelectSeq(pl_dataset, LAMBDA r : ~(r.id \in loan_ids_to_remove))

\* the locals of process_loans_dataframe_segmentation: PL_dataset as first cut
\* (PL_split), NPL_dataset, problematic_loans, and PL_dataset as split_pls
\* leaves it, with its 'Type of Calculation' column (PL_dataset)
SegmentationLocals(df, with_column) ==
    LET pl0 == PLDataset(df, with_column)
        problematic_loans == CheckProblematicLoans(pl0)
        pl == IF problematic_loans # <<>> THEN RemoveProblematic(pl0, problematic_loans)
              ELSE pl0
    IN [PL_split |-> pl0,
        NPL_dataset |-> NPLDataset(df, with_column),
        problematic_loans |-> problematic_loans,
        PL_dataset |-> AssignCalculationType(pl)]

\* process_loans_dataframe_segmentation: complete_results
ProcessLoansDataframeSegmentation(df, with_column, guarantees) ==
    LET locals == SegmentationLocals(df, with_column)
        npl == locals.NPL_dataset
        split == IF npl # <<>> THEN SplitNpls(npl, guarantees)
                 ELSE [with_guarantees |-> <<>>, without_guarantees |-> <<>>]
    IN [performing_loans |-> SplitPls(locals.PL_dataset),
        non_performing_loans |-> split,
        problematic_loans |-> locals.problematic_loans,
        summary |-> [total_loans |-> Len(df),
                     performing_count |-> Len(locals.PL_dataset),
                     non_performing_count |-> Len(npl),
                     npl_with_guarantees |-> Len(split.with_guarantees),
                     npl_without_guarantees |-> Len(split.without_guarantees),
                     problematic_loans_count |-> Len(locals.problematic_loans)]]

\* floating_df['interest_rate_type'] = 'floating' / fixed_df[...] = 'fixed'
Tagged(df, tag) ==
    [i \in 1..Len(df) |->
        [row |-> df[i].row, id |-> df[i].id, type |-> df[i].type,
         rate_type |-> df[i].rate_type, maturity |-> df[i].maturity,
         balance |-> df[i].balance, calc |-> df[i].calc,
         interest_rate_type |-> tag]]

\* combine_floating_fixed on the groups process_floating_loans and
\* process_fixed_loans pass on row by row (they add the total_rates column)
CombineFloatingFixed(segmented) ==
    [i \in 1..4 |->
        Tagged(segmented.performing_loans.floating[i], "floating")
        \o Tagged(segmented.performing_loans.fixed[i], "fixed")]

----------------------------------------------------------------------------
(* Inputs of the segmentation *)

LoanRow(id, type, rate_type, maturity, balance, past_due, guarantee) ==
    [id |-> id, type |-> type, rate_type |-> rate_type, maturity |-> maturity,
     balance |-> balance, past_due |-> past_due, guarantee |-> guarantee]

\* 'Unique Loan ID' values: two rows of a table may carry the same one
LoanIds == {"L1", "L2"}

\* rows of the tables of several rows: performing loans of three loan types
\* (bucket 1, Special, unmapped), usable or unusable, and non-performing loans
\* with and without a guarantee value
PerformingRows ==
    {LoanRow(id, Str(<<type>>), rate_type, mb[1], mb[2], NaN, NaN) :
        id \in LoanIds, type \in {"Other", "Overdraft", "Mystery"},
        rate_type \in {"Floating", "Fixed"},
        mb \in {<<NaN, Num(0)>>, <<Ts(1), Num(100)>>}}

NonPerformingRows ==
    {LoanRow(id, Str(<<"Other">>), "Fixed", Ts(1), Num(100), Ts(1), guarantee) :
        id \in LoanIds, guarantee \in {NaN, Num(5)}}

\* 'Type of Loan' cells: every key of calculation_types bare and padded, and
\* texts that are no key
TypeCells ==
    {Str(<<key>>) : key \in DOMAIN CalculationTypes}
    \cup {Str(<<Blank, key, Blank>>) : key \in DOMAIN CalculationTypes}
    \cup {Str(<<Blank, Blank, "Other">>), Str(<<"Overdraft", Blank>>),
          Str(<<"overdraft">>), Str(<<"Mystery">>), Str(<<Blank, "Mystery">>),
          Str(<<"nan">>), Str(<<>>), Str(<<Blank>>), NaN}

TypeRows ==
    {LoanRow("L1", type, rate_type, Ts(1), Num(100), NaN, NaN) :
        type \in TypeCells, rate_type \in {"Floating", "Fixed", "floating", "FLOATING"}}

\* 'Maturity Date' and 'Outstanding Balance After Adjustments' cells
MaturityCells ==
    {NaN, NaT, Ts(1), Str(<<"2021-01-31">>), Str(<<>>), Str(<<Blank>>),
     Str(<<"Not Available">>), Str(<<Blank, "NOT APPLICABLE">>), Str(<<"nan">>),
     Str(<<"NULL", Blank>>), Str(<<"not available">>), Str(<<"TBD">>), Str(<<"n/a">>)}

BalanceCells ==
    {NaN, Num(0), Num(100), Str(<<>>), Str(<<"Not applicable">>), Str(<<"NaN">>),
     Str(<<Blank, "null">>), Str(<<"0">>), Str(<<"TBD">>)}

ProblemRows ==
    {LoanRow("L1", type, "Fixed", maturity, balance, NaN, NaN) :
        type \in {Str(<<"Other">>), Str(<<Blank, "Overdraft", Blank>>),
                  Str(<<"overdraft">>), Str(<<"Credit Card">>),
                  Str(<<"Current Account">>), NaN},
        maturity \in MaturityCells, balance \in BalanceCells}

\* 'Past Due Date' and 'Guarantee current value' cells
PastDueCells ==
    {NaN, NaT, Ts(0), Ts(1), Str(<<"2021-01-31">>), Str(<<"n/a">>), Str(<<>>)}

GuaranteeCells == {NaN, Num(0), Num(5), Str(<<"n/a">>)}

PastDueRows ==
    {LoanRow("L1", Str(<<"Other">>), "Fixed", maturity, Num(0), past_due, guarantee) :
        maturity \in {NaN, Ts(1)}, past_due \in PastDueCells,
        guarantee \in GuaranteeCells}

\* the table with these rows: row is the row's index label
Indexed(rows) ==
    [i \in 1..Len(rows) |->
        [row |-> i, id |-> rows[i].id, type |-> rows[i].type,
         rate_type |-> rows[i].rate_type, maturity |-> rows[i].maturity,
         balance |-> rows[i].balance, past_due |-> rows[i].past_due,
         guarantee |-> rows[i].guarantee]]

\* the loan tables: every table of up to MaxRows performing and non-performing
\* rows, and every table of one row with the cells above
Datatapes ==
    {Indexed(rows) :
        rows \in UNION {[1..n -> PerformingRows \cup NonPerformingRows] : n \in 0..MaxRows}}
    \cup {Indexed(<<r>>) : r \in TypeRows \cup ProblemRows \cup PastDueRows}

\* the sheet GuaranteesConso: up to MaxRows rows of a loan id and a guarantee value
GuaranteeSheetRows == [id : LoanIds, guarantee : {NaN, Num(0), Num(5)}]

GuaranteeSheets == UNION {[1..n -> GuaranteeSheetRows] : n \in 0..MaxRows}

\* the loan tables of non-performing rows read together with the sheet
NplDatatapes ==
    {Indexed(rows) : rows \in UNION {[1..n -> NonPerformingRows] : n \in 0..MaxRows}}

Embedded == [complex |-> FALSE, rows |-> <<>>]

SegInit ==
    /\ \/ /\ datatape_df \in Datatapes
          /\ has_past_due \in BOOLEAN
          /\ guarantees_df = Embedded
       \/ /\ datatape_df \in NplDatatapes
          /\ has_past_due = TRUE
          /\ guarantees_df \in [complex : {TRUE}, rows : GuaranteeSheets]
    /\ spc = "start"
    /\ seg_locals = <<>>
    /\ complete_results = <<>>
    /\ combined_loans = <<>>

----------------------------------------------------------------------------
(* The pipeline from the loan table to the combined buckets *)

\* segmented_results = process_loans_dataframe_segmentation(loans_df, loans_filename)
Segment ==
    /\ spc = "start"
    /\ seg_locals' = SegmentationLocals(datatape_df, has_past_due)
    /\ complete_results' =
          ProcessLoansDataframeSegmentation(datatape_df, has_past_due, guarantees_df)
    /\ spc' = "segmented"
    /\ UNCHANGED <<datatape_df, has_past_due, guarantees_df, combined_loans>>
    /\ UNCHANGED <<riskVars, enrichVars, ratesVars, gridVars, loaderVars, normVars, lookupVars>>

\* process_floating_loans, process_fixed_loans and combine_floating_fixed
Combine ==
    /\ spc = "segmented"
    /\ combined_loans' = CombineFloatingFixed(complete_results)
    /\ spc' = "combined"
    /\ UNCHANGED <<datatape_df, has_past_due, guarantees_df, seg_locals,
                   complete_results>>
    /\ UNCHANGED <<riskVars, enrichVars, ratesVars, gridVars, loaderVars, normVars, lookupVars>>

SegNext ==
    \/ Segment
    \/ Combine

----------------------------------------------------------------------------
(* Fixed-assumption enrichment: input_data/fixed_dfs.py *)

\* calculation_types with 'Discounted Bill/ Note' in bucket 1
EnrichCalculationTypesNoBucketTwo ==
    [t \in DOMAIN CalculationTypes \ {"Uncalled Bank Guarantee", "Called Bank Guarantee"} |->
        IF t \in {"Overdraft", "Current Account"} THEN "3"
        ELSE IF t = "Credit Card" THEN "4" ELSE "1"]

\* calculation_types of prepare_rates_fees_dict_with_percentage_fix
EnrichCalculationTypes ==
    ("Medium / Long Term Loan" :> "1") @@ ("RE Leasing" :> "1") @@
    ("Overdraft" :> "3") @@ ("Syndicated Loan" :> "1") @@
    ("Factoring" :> "1") @@ ("Residential Mortgage" :> "1") @@
    ("Credit Card" :> "4") @@ ("Corporate/ Development Loan" :> "1") @@
    ("Current Account" :> "3") @@ ("Non RE Leasing" :> "1") @@
    ("Discounted Bill/ Note" :> "2") @@ ("Consumer Loan" :> "1") @@
    ("Other" :> "1") @@ ("Trade Finance" :> "1") @@
    ("Restructured Loan" :> "1")

\* rates_fees_table['Types of Loans'].map(calculation_types).fillna('')
FeeCalculationType(type) ==
    IF type \in DOMAIN EnrichCalculationTypes THEN EnrichCalculationTypes[type] ELSE ""

\* the fee columns of the rates and fees table
FeeColumns ==
    {"discount_rate", "fees_undrawn_commitment", "fees_outstanding_balance",
     "servicing_fee"}

\* the tables load_assumptions_once and get_fixed_summary_assumptions read
RatesFeesTable ==
    <<[type |-> "Other", discount_rate |-> Num(14), fees_undrawn_commitment |-> Num(1),
       fees_outstanding_balance |-> Num(200), servicing_fee |-> NaN],
      [type |-> "Discounted Bill/ Note", discount_rate |-> Num(9),
       fees_undrawn_commitment |-> Num(2), fees_outstanding_balance |-> Num(50),
       servicing_fee |-> NaN],
      [type |-> "Overdraft", discount_rate |-> Num(20), fees_undrawn_commitment |-> NaN,
       fees_outstanding_balance |-> Num(100), servicing_fee |-> NaN]>>

FxTable == <<[quote |-> "USD", base |-> "EUR", rate |-> Num(92)],
             [quote |-> "USD", base |-> "GBP", rate |-> Num(79)]>>

TaxTable == <<[currency |-> "EUR", tax |-> Num(2500)]>>

OutputCurrency == "EUR"

\* the percentage fix of one column: when the column has a value and every value
\* it has is < 1, the column is multiplied by 100
AllBelowOne(cells) ==
    /\ \E i \in 1..Len(cells) : ~IsNa(cells[i])
    /\ \A i \in 1..Len(cells) : ~IsNa(cells[i]) => cells[i].n < 100

TimesHundred(c) == IF IsNa(c) THEN c ELSE Num(c.n * 100)

FixColumn(cells) ==
    IF AllBelowOne(cells) THEN [i \in 1..Len(cells) |-> TimesHundred(cells[i])]
    ELSE cells

\* prepare_rates_fees_dict_with_percentage_fix: rates_fees_dict[type_id][column],
\* a mapping from loan type to the (fixed) value of the column
RatesFeesDict(type_id, column) ==
    LET fixed == FixColumn([i \in 1..Len(RatesFeesTable) |-> RatesFeesTable[i][column]])
        rows == {i \in 1..Len(RatesFeesTable) :
                    /\ RatesFeesTable[i].type \in DOMAIN EnrichCalculationTypes
                    /\ EnrichCalculationTypes[RatesFeesTable[i].type] = ToString(type_id)}
    IN [t \in {RatesFeesTable[i].type : i \in rows} |->
            fixed[SetMax({i \in rows : RatesFeesTable[i].type = t})]]

\* loans_df[column].map(mapping): a key the mapping lacks gives a missing value
MapThrough(mapping, key) == IF key \in DOMAIN mapping THEN mapping[key] ELSE NaN

\* fx_dict[cur] left without an entry when the FX table has no row
FxRateWithoutDefault(cur) ==
    LET rows == {i \in 1..Len(FxTable) :
                    FxTable[i].quote = cur /\ FxTable[i].base = OutputCurrency}
    IN IF rows # {} THEN FxTable[CHOOSE i \in rows : \A j \in rows : i <= j].rate
       ELSE NaN

\* fx_dict[cur] and tax_dict[cur] of process_type
FxRate(cur) ==
    LET rows == {i \in 1..Len(FxTable) :
                    FxTable[i].quote = cur /\ FxTable[i].base = OutputCurrency}
    IN IF rows # {} THEN FxTable[CHOOSE i \in rows : \A j \in rows : i <= j].rate
       ELSE Num(100)

TaxRate(cur) ==
    LET rows == {i \in 1..Len(TaxTable) : TaxTable[i].currency = cur}
    IN IF rows # {} THEN TaxTable[CHOOSE i \in rows : \A j \in rows : i <= j].tax
       ELSE Num(0)

\* a 'Currency' cell without a value
NoCurrency == "(missing)"

\* loans_df['Currency'].dropna().unique()
UniqueCurrencies(currencies) ==
    {currencies[i] : i \in 1..Len(currencies)} \ {NoCurrency}

\* fx_dict and tax_dict: an entry for each currency of the bucket
FxDict(currencies) == [cur \in UniqueCurrencies(currencies) |-> FxRate(cur)]
TaxDict(currencies) == [cur \in UniqueCurrencies(currencies) |-> TaxRate(cur)]

\* the comparison interest_rates[interest_rates.notna()] < 1 raises a TypeError
\* when a cell of 'Interest Rate (%)' holds a text
ProcessTypeRaises(loans_df) ==
    loans_df # <<>> /\ \E i \in 1..Len(loans_df) : loans_df[i].rate.k = "str"

\* loans_df["Currency"] = loans_df.get("Currency", "EUR"): a table without the
\* column gets "EUR" in every row
CurrencyOf(loan) == IF "currency" \in DOMAIN loan THEN loan.currency ELSE "EUR"

\* the table process_type returns when it does not raise
ProcessType(loans_df, type_id) ==
    IF loans_df = <<>> THEN <<>>
    ELSE LET rates == FixColumn([i \in 1..Len(loans_df) |-> loans_df[i].rate])
             currencies == [i \in 1..Len(loans_df) |-> CurrencyOf(loans_df[i])]
         IN [i \in 1..Len(loans_df) |->
                [loan |-> loans_df[i].loan,
                 type |-> loans_df[i].type,
                 currency |-> CurrencyOf(loans_df[i]),
                 rate |-> rates[i],
                 output_currency |-> OutputCurrency,
                 fx_rate |-> MapThrough(FxDict(currencies), currencies[i]),
                 tax_rate |-> MapThrough(TaxDict(currencies), currencies[i]),
                 discount_rate |->
                    MapThrough(RatesFeesDict(type_id, "discount_rate"), loans_df[i].type),
                 fees_undrawn_commitment |->
                    MapThrough(RatesFeesDict(type_id, "fees_undrawn_commitment"),
                               loans_df[i].type),
                 fees_outstanding_balance |->
                    MapThrough(RatesFeesDict(type_id, "fees_outstanding_balance"),
                               loans_df[i].type),
                 servicing_fee |->
                    MapThrough(RatesFeesDict(type_id, "servicing_fee"), loans_df[i].type)]]

----------------------------------------------------------------------------
(* Inputs of the enrichment: the four buckets assign_combined_risk_rates returned *)

\* the loan types the segmentation puts in the numbered buckets 1 and 2
BucketTypes(type_id) ==
    {t \in DOMAIN CalculationTypes : CalculationTypes[t] = ToString(type_id)}
    \cap {"Other", "Discounted Bill/ Note"}

\* 'Interest Rate (%)' cells: 0.05, 5, missing and a text
RateCells == {Num(5), Num(500), NaN, Str(<<"n/a">>)}

\* a loan of bucket 1 whose type has no row in the rates and fees table, and
\* one whose 'Currency' cell has no value
UnlistedRows(type_id) ==
    IF type_id = 1 /\ CalculationTypes["Factoring"] = "1"
    THEN {[type |-> "Factoring", currency |-> "EUR", rate |-> Num(500)],
          [type |-> "Other", currency |-> NoCurrency, rate |-> Num(500)]}
    ELSE {}

BucketRows(type_id) ==
    [type : BucketTypes(type_id), currency : {"EUR", "USD"}, rate : RateCells]
    \cup UnlistedRows(type_id)

\* the tables of a bucket that come from a datatape with a 'Currency' column
BucketTablesWithCurrency(type_id) ==
    {[i \in 1..Len(rows) |->
        [loan |-> <<type_id, i>>, type |-> rows[i].type,
         currency |-> rows[i].currency, rate |-> rows[i].rate]] :
        rows \in UNION {[1..n -> BucketRows(type_id)] : n \in 0..MaxBucketRows}}

\* the tables of a bucket that come from a datatape without a 'Currency' column
BucketTablesWithoutCurrency(type_id) ==
    {[i \in 1..Len(rows) |->
        [loan |-> <<type_id, i>>, type |-> rows[i].type, rate |-> rows[i].rate]] :
        rows \in UNION {[1..n -> [type : BucketTypes(type_id), rate : {Num(500)}]] :
                            n \in 1..MaxBucketRows}}

BucketTables(type_id) ==
    BucketTablesWithCurrency(type_id) \cup BucketTablesWithoutCurrency(type_id)

TypeIds == 1..4

\* ThreadPoolExecutor(max_workers=4)
MaxWorkers == 4

\* the steps of main_processing_pipeline_from_streams before the enrichment, in
\* their order, each of which returns or raises
UpstreamStages ==
    <<"segmentation", "floating rates", "fixed rates", "combine", "risk assignment">>

StageNames == {UpstreamStages[k] : k \in 1..Len(UpstreamStages)}

AfterStage(stage) ==
    LET k == CHOOSE j \in 1..Len(UpstreamStages) : UpstreamStages[j] = stage
    IN IF k = Len(UpstreamStages) THEN "submit" ELSE UpstreamStages[k + 1]

\* return None, None, None: no loan table
None == <<"None">>

EnrichInit ==
    /\ epc = UpstreamStages[1]
    /\ combined_with_risks \in
          {<<b1, b2, b3, b4>> : b1 \in BucketTables(1), b2 \in BucketTables(2),
                                b3 \in BucketTables(3), b4 \in BucketTables(4)}
    /\ futures = [t \in TypeIds |-> [state |-> "unsubmitted", value |-> <<>>]]
    /\ enriched_loans = <<>>
    /\ join_pos = 0
    /\ raised = "none"
    /\ combined_with_fixed = <<>>

----------------------------------------------------------------------------
(* enrich_loans_with_fixed_assumptions_parallel inside
   main_processing_pipeline_from_streams *)

Settled(t) == futures[t].state \in {"result", "exception"}

\* a step before the enrichment returns: the pipeline goes on with the next one
StagePasses(stage) ==
    /\ epc = stage
    /\ epc' = AfterStage(stage)
    /\ UNCHANGED <<combined_with_risks, futures, enriched_loans, join_pos, raised,
                   combined_with_fixed>>
    /\ UNCHANGED <<riskVars, segVars, ratesVars, gridVars, loaderVars, normVars, lookupVars>>

\* an outer except clause that returns the buckets it has
StageRaisesReturnsBuckets(stage) ==
    /\ epc = stage
    /\ raised' = "Exception"
    /\ combined_with_fixed' = combined_with_risks
    /\ epc' = "aborted"
    /\ UNCHANGED <<combined_with_risks, futures, enriched_loans, join_pos>>
    /\ UNCHANGED <<riskVars, segVars, ratesVars, gridVars, loaderVars, normVars, lookupVars>>

\* a step before the enrichment raises: the outer except clause returns
\* None, None, None
StageRaises(stage) ==
    /\ epc = stage
    /\ raised' = "Exception"
    /\ combined_with_fixed' = None
    /\ epc' = "aborted"
    /\ UNCHANGED <<combined_with_risks, futures, enriched_loans, join_pos>>
    /\ UNCHANGED <<riskVars, segVars, ratesVars, gridVars, loaderVars, normVars, lookupVars>>

\* executor.submit(process_type, loans_dict.get(type_key), type_id, ...), for
\* type_id = 1, 2, 3, 4 in turn; a worker of the pool of 4 takes it at once
SubmitTask(t) ==
    /\ epc = "submit"
    /\ futures[t].state = "unsubmitted"
    /\ \A u \in 1..(t - 1) : futures[u].state # "unsubmitted"
    /\ futures' = [futures EXCEPT ![t].state = "running"]
    /\ epc' = IF t = 4 THEN "join" ELSE "submit"
    /\ join_pos' = IF t = 4 THEN 1 ELSE join_pos
    /\ UNCHANGED <<combined_with_risks, enriched_loans, raised, combined_with_fixed>>
    /\ UNCHANGED <<riskVars, segVars, ratesVars, gridVars, loaderVars, normVars, lookupVars>>

\* a worker that reads the first bucket whatever the task it runs
FinishTaskFirstBucket(t) ==
    /\ futures[t].state = "running"
    /\ futures' = [futures EXCEPT ![t] =
          IF ProcessTypeRaises(combined_with_risks[1])
          THEN [state |-> "exception", value |-> <<>>]
          ELSE [state |-> "result", value |-> ProcessType(combined_with_risks[1], t)]]
    /\ UNCHANGED <<epc, combined_with_risks, enriched_loans, join_pos, raised,
                   combined_with_fixed>>
    /\ UNCHANGED <<riskVars, segVars, ratesVars, gridVars, loaderVars, normVars, lookupVars>>

\* a worker returns from process_type, with a table or with an exception
FinishTask(t) ==
    /\ futures[t].state = "running"
    /\ futures' = [futures EXCEPT ![t] =
          IF ProcessTypeRaises(combined_with_risks[t])
          THEN [state |-> "exception", value |-> <<>>]
          ELSE [state |-> "result", value |-> ProcessType(combined_with_risks[t], t)]]
    /\ UNCHANGED <<epc, combined_with_risks, enriched_loans, join_pos, raised,
                   combined_with_fixed>>
    /\ UNCHANGED <<riskVars, segVars, ratesVars, gridVars, loaderVars, normVars, lookupVars>>

\* enriched_loans[type_key] = fut.result(), the future holding a table
JoinResult ==
    /\ epc = "join"
    /\ join_pos \in TypeIds
    /\ futures[join_pos].state = "result"
    /\ enriched_loans' = enriched_loans @@ (join_pos :> futures[join_pos].value)
    /\ join_pos' = join_pos + 1
    /\ UNCHANGED <<epc, combined_with_risks, futures, raised, combined_with_fixed>>
    /\ UNCHANGED <<riskVars, segVars, ratesVars, gridVars, loaderVars, normVars, lookupVars>>

\* fut.result() raises the task's exception: the loop is left and the with block
\* starts executor.shutdown(wait=True)
JoinException ==
    /\ epc = "join"
    /\ join_pos \in TypeIds
    /\ futures[join_pos].state = "exception"
    /\ raised' = "TypeError"
    /\ epc' = "shutdown"
    /\ UNCHANGED <<combined_with_risks, futures, enriched_loans, join_pos,
                   combined_with_fixed>>
    /\ UNCHANGED <<riskVars, segVars, ratesVars, gridVars, loaderVars, normVars, lookupVars>>

\* a join that keeps the tables of the tasks that returned one
ReturnPartial ==
    /\ epc = "shutdown"
    /\ \A t \in TypeIds : Settled(t)
    /\ combined_with_fixed' =
          [t \in TypeIds |-> IF futures[t].state = "result" THEN futures[t].value
                             ELSE combined_with_risks[t]]
    /\ epc' = "returned"
    /\ UNCHANGED <<combined_with_risks, futures, enriched_loans, join_pos, raised>>
    /\ UNCHANGED <<riskVars, segVars, ratesVars, gridVars, loaderVars, normVars, lookupVars>>

\* every task has finished: the exception leaves enrich_..._parallel and the
\* pipeline's except clause sets combined_with_fixed = combined_with_risks
ReturnWithoutEnrichment ==
    /\ epc = "shutdown"
    /\ \A t \in TypeIds : Settled(t)
    /\ combined_with_fixed' = combined_with_risks
    /\ epc' = "returned"
    /\ UNCHANGED <<combined_with_risks, futures, enriched_loans, join_pos, raised>>
    /\ UNCHANGED <<riskVars, segVars, ratesVars, gridVars, loaderVars, normVars, lookupVars>>

\* the loop has stored the four results: return enriched_loans
ReturnEnriched ==
    /\ epc = "join"
    /\ join_pos = 5
    /\ combined_with_fixed' = enriched_loans
    /\ epc' = "returned"
    /\ UNCHANGED <<combined_with_risks, futures, enriched_loans, join_pos, raised>>
    /\ UNCHANGED <<riskVars, segVars, ratesVars, gridVars, loaderVars, normVars, lookupVars>>

EnrichNext ==
    \/ \E stage \in StageNames : StagePasses(stage)
    \/ \E stage \in StageNames : StageRaises(stage)
    \/ \E t \in TypeIds : SubmitTask(t)
    \/ \E t \in TypeIds : FinishTask(t)
    \/ JoinResult
    \/ JoinException
    \/ ReturnWithoutEnrichment
    \/ ReturnEnriched

----------------------------------------------------------------------------
(* Texts of dates: str(), strftime and the comparison of two texts *)

\* a date is the number yyyymmdd
Year(date) == date \div 10000
Month(date) == (date \div 100) % 100
Day(date) == date % 100

Digit(n) == <<"0", "1", "2", "3", "4", "5", "6", "7", "8", "9">>[n + 1]
Digits2(n) == <<Digit(n \div 10), Digit(n % 10)>>
Digits4(n) == Digits2(n \div 100) \o Digits2(n % 100)

\* the date part of str(Timestamp), and a date text in that form
IsoDate(date) ==
    Digits4(Year(date)) \o <<"-">> \o Digits2(Month(date)) \o <<"-">> \o Digits2(Day(date))

\* str(pd.Timestamp) at midnight: '2021-06-30 00:00:00'
TimestampStr(date) == IsoDate(date) \o <<" ", "0", "0", ":", "0", "0", ":", "0", "0">>

\* date.strftime('%m/%d/%Y'), the form the assumption template writes its headers in
MdyDate(date) ==
    Digits2(Month(date)) \o <<"/">> \o Digits2(Day(date)) \o <<"/">> \o Digits4(Year(date))

\* the code points of the characters these texts are made of
Ord ==
    (" " :> 32) @@ ("-" :> 45) @@ ("/" :> 47) @@ ("0" :> 48) @@ ("1" :> 49) @@
    ("2" :> 50) @@ ("3" :> 51) @@ ("4" :> 52) @@ ("5" :> 53) @@ ("6" :> 54) @@
    ("7" :> 55) @@ ("8" :> 56) @@ ("9" :> 57) @@ (":" :> 58) @@ ("N" :> 78) @@
    ("T" :> 84) @@ ("a" :> 97) @@ ("n" :> 110)

\* a <= b on two str: by the first character that differs, a prefix being smaller
StrLeq(a, b) ==
    LET differ == {i \in 1..Min(Len(a), Len(b)) : a[i] # b[i]}
    IN IF differ = {} THEN Len(a) <= Len(b)
       ELSE LET i == CHOOSE x \in differ : \A y \in differ : x <= y
            IN Ord[a[i]] < Ord[b[i]]

\* str(value) of a cell: of a Timestamp, of a text, 'nan' and 'NaT'
PyStr(c) ==
    IF c.k = "ts" THEN TimestampStr(c.n)
    ELSE IF c.k = "nan" THEN <<"n", "a", "n">>
    ELSE IF c.k = "nat" THEN <<"N", "a", "T">>
    ELSE c.s

----------------------------------------------------------------------------
(* Floating loans: input_data/index_rate_calculation.py *)

\* assumptions_dict.get(index_name, {})
IndexRates(dict, index) ==
    IF index.k = "str" /\ index.s \in DOMAIN dict THEN dict[index.s] ELSE <<>>

\* the positions of the curve whose date key is <= str(maturity), as texts
KeysUpToMaturity(index_rates, maturity) ==
    {i \in 1..Len(index_rates) : StrLeq(index_rates[i].key, PyStr(maturity))}

\* the loans whose curve would be filled without the test of pd.isna(maturity)
CurveFilledMissingMaturity(loan, dict) ==
    /\ ~IsNa(loan.index)
    /\ IndexRates(dict, loan.index) # <<>>

\* the loans whose curve is filled: the groupby drops a missing index, an
\* unregistered or empty curve and a missing maturity are skipped
CurveFilled(loan, dict) ==
    /\ ~IsNa(loan.index)
    /\ IndexRates(dict, loan.index) # <<>>
    /\ ~IsNa(loan.maturity)

\* assumption_rate + margin
AddMargin(assumption_rate, margin) ==
    IF IsNa(margin) THEN NaN ELSE Num(assumption_rate.n + margin.n)

\* total_rates of one loan
FloatingTotalRates(loan, dict) ==
    IF ~CurveFilled(loan, dict) THEN <<>>
    ELSE LET index_rates == IndexRates(dict, loan.index)
             kept == KeysUpToMaturity(index_rates, loan.maturity)
         IN IF kept = {} THEN <<>>
            ELSE [period_date \in {index_rates[i].key : i \in kept} |->
                    AddMargin(
                        index_rates[CHOOSE i \in kept :
                                        index_rates[i].key = period_date].rate,
                        loan.margin)]

\* assumption_rate + margin raises a TypeError when the margin is a text
ProcessFloatingRaises(df, dict) ==
    \E i \in 1..Len(df) :
        /\ CurveFilled(df[i], dict)
        /\ KeysUpToMaturity(IndexRates(dict, df[i].index), df[i].maturity) # {}
        /\ df[i].margin.k = "str"

\* process_floating_calculations when it does not raise
ProcessFloatingCalculations(df, dict) ==
    [i \in 1..Len(df) |->
        [row |-> df[i].row, index |-> df[i].index, maturity |-> df[i].maturity,
         margin |-> df[i].margin, total_rates |-> FloatingTotalRates(df[i], dict)]]

----------------------------------------------------------------------------
(* Fixed loans: input_data/fixed_rate_calculation.py *)

\* the texts convert_rate_to_decimal reads as a missing rate
MissingRateTexts == {<<"Not available">>, <<"Not applicable">>, <<>>, <<"n/a">>, <<"na">>}

\* float(text) of the numeric texts of the model, in hundredths
NumericTexts ==
    ("5" :> 500) @@ ("1" :> 100) @@ ("0.5" :> 50) @@ ("14" :> 1400) @@
    ("0.14" :> 14) @@ ("-0.51" :> -51) @@ ("0" :> 0) @@ ("10" :> 1000)

\* text.replace('%', '').strip()
WithoutPercent(pieces) == Strip(SelectSeq(pieces, LAMBDA x : x # "%"))

\* whether float(pieces) raises a ValueError
FloatRaises(pieces) == ~(Len(Strip(pieces)) = 1 /\ Strip(pieces)[1] \in DOMAIN NumericTexts)

FloatOf(pieces) == NumericTexts[Strip(pieces)[1]]

\* convert_rate_to_decimal: 0.0 for a missing rate, a text that is no number and
\* whatever raises; a text with '%' divided by 100; another value divided by
\* 100 when it is > 1.  The numbers of the model above 1 are whole percents, so
\* that the division is exact in hundredths.
ConvertRateToDecimal(rate_value) ==
    IF IsNa(rate_value) THEN Num(0)
    ELSE IF rate_value.k = "str" /\ rate_value.s \in MissingRateTexts THEN Num(0)
    ELSE IF rate_value.k = "str" /\ (\E i \in 1..Len(rate_value.s) : rate_value.s[i] = "%")
         THEN IF FloatRaises(WithoutPercent(rate_value.s)) THEN Num(0)
              ELSE Num(FloatOf(WithoutPercent(rate_value.s)) \div 100)
    ELSE IF rate_value.k = "str"
         THEN IF FloatRaises(rate_value.s) THEN Num(0)
              ELSE LET val == FloatOf(rate_value.s)
                   IN IF val > 100 THEN Num(val \div 100) ELSE Num(val)
    ELSE IF rate_value.k = "num"
         THEN IF rate_value.n > 100 THEN Num(rate_value.n \div 100) ELSE rate_value
    ELSE Num(0)

\* total_rate_dict of one fixed loan
FixedTotalRates(loan) ==
    IF IsNa(loan.maturity) THEN <<>>
    ELSE (PyStr(loan.maturity) :> ConvertRateToDecimal(loan.rate))

\* process_fixed_loans_dataframe
ProcessFixedLoansDataframe(loans_df) ==
    [i \in 1..Len(loans_df) |->
        [row |-> loans_df[i].row, rate |-> loans_df[i].rate,
         maturity |-> loans_df[i].maturity, total_rates |-> FixedTotalRates(loans_df[i])]]

----------------------------------------------------------------------------
(* Inputs of the rate-curve stage *)

\* the dates and rates of the index curve: -0.51, 0.10 and 1.25 percent
CurveDates == <<20201231, 20210630, 20211231>>
CurveRates == <<Num(-51), Num(10), Num(125)>>

\* the forms of a header cell: a date cell, read as a Timestamp, whose key is
\* str(Timestamp); a text yyyy-mm-dd; the text mm/dd/yyyy the template writes
KeyForms == {"timestamp", "iso", "mdy"}

DateKey(date, form) ==
    IF form = "timestamp" THEN TimestampStr(date)
    ELSE IF form = "iso" THEN IsoDate(date)
    ELSE MdyDate(date)

Curve(form) ==
    [i \in 1..Len(CurveDates) |->
        [key |-> DateKey(CurveDates[i], form), rate |-> CurveRates[i]]]

\* the table 'Index Type': one index with a curve and one with an empty row, or
\* the empty mapping of a table that was not found
AssumptionDicts ==
    {(<<"EURIBOR 3M">> :> Curve(form)) @@ (<<"LIBOR">> :> <<>>) : form \in KeyForms}
    \cup {<<>>}

FloatingRow(index, maturity, margin) ==
    [index |-> index, maturity |-> maturity, margin |-> margin]

NotADate == <<"n", "/", "a">>

FloatingIndexCells ==
    {Str(<<"EURIBOR 3M">>), Str(<<"EURIBOR 3M", Blank>>), Str(<<"LIBOR">>),
     Str(<<"SOFR">>), NaN}

FloatingMaturityCells ==
    {NaN, NaT, Ts(20210630), Ts(20210815), Ts(20201130), Str(IsoDate(20210630)),
     Str(MdyDate(20210630)), Str(NotADate)}

MarginCells == {Num(200), NaN, Str(<<"n/a">>)}

\* the rows of the tables of one row, and those of the longer tables
FloatingRows ==
    {FloatingRow(index, maturity, margin) :
        index \in FloatingIndexCells, maturity \in FloatingMaturityCells,
        margin \in MarginCells}

FloatingBatchRows ==
    {FloatingRow(index, maturity, margin) :
        index \in {Str(<<"EURIBOR 3M">>), Str(<<"SOFR">>)},
        maturity \in {Ts(20210630), Str(MdyDate(20210630)), NaN},
        margin \in {Num(200), Str(<<"n/a">>)}}

\* the table with these rows: row is the row's index label
WithRowLabels(rows) == [i \in 1..Len(rows) |-> [row |-> i] @@ rows[i]]

FloatingTables ==
    {WithRowLabels(<<r>>) : r \in FloatingRows}
    \cup {WithRowLabels(rows) :
            rows \in UNION {[1..n -> FloatingBatchRows] : n \in 0..MaxRateRows}}

FixedRow(rate, maturity) == [rate |-> rate, maturity |-> maturity]

\* 'Interest Rate (%)' cells: 5, 1, 0.5, 0, -2 and 14 percent, texts of numbers
\* with and without '%', and texts that are no number
FixedRateCells ==
    {NaN, Num(500), Num(100), Num(50), Num(0), Num(-200), Num(1400),
     Str(<<"5", "%">>), Str(<<Blank, "5", Blank, "%">>), Str(<<"5">>), Str(<<"0.5">>),
     Str(<<"1">>), Str(<<"n/a">>), Str(<<"Not available">>), Str(<<"TBD">>),
     Str(<<"TBD", "%">>), Str(<<>>)}

FixedMaturityCells ==
    {NaN, NaT, Ts(20210630), Str(IsoDate(20210630)), Str(NotADate)}

FixedRows ==
    {FixedRow(rate, maturity) : rate \in FixedRateCells, maturity \in FixedMaturityCells}

FixedBatchRows ==
    {FixedRow(rate, maturity) :
        rate \in {Num(500), Num(100), Str(<<"TBD">>)}, maturity \in {Ts(20210630), NaN}}

FixedTables ==
    {WithRowLabels(<<r>>) : r \in FixedRows}
    \cup {WithRowLabels(rows) :
            rows \in UNION {[1..n -> FixedBatchRows] : n \in 0..MaxRateRows}}

RatesInit ==
    /\ \/ /\ floating_df \in FloatingTables
          /\ assumptions_dict \in AssumptionDicts
          /\ fixed_df = WithRowLabels(<<FixedRow(Num(500), Ts(20210630)),
                                        FixedRow(Num(500), NaT)>>)
       \/ /\ floating_df = <<>>
          /\ assumptions_dict = <<>>
          /\ fixed_df \in FixedTables
    /\ rates_pc = "start"
    /\ floating_results = <<>>
    /\ fixed_results = <<>>

----------------------------------------------------------------------------
(* The rate-curve stage of main_processing_pipeline_from_streams *)

\* floating_results = process_floating_loans(...): a TypeError of
\* process_floating_calculations reaches the pipeline's except clause, which
\* returns (None, None, None)
ProcessFloatingLoans ==
    /\ rates_pc = "start"
    /\ IF floating_df # <<>> /\ ProcessFloatingRaises(floating_df, assumptions_dict)
       THEN rates_pc' = "failed" /\ UNCHANGED floating_results
       ELSE /\ rates_pc' = "floating_done"
            /\ floating_results' =
                  ProcessFloatingCalculations(floating_df, assumptions_dict)
    /\ UNCHANGED <<floating_df, assumptions_dict, fixed_df, fixed_results>>
    /\ UNCHANGED <<riskVars, segVars, enrichVars, gridVars, loaderVars, normVars, lookupVars>>

\* fixed_results = process_fixed_loans(segmented_results)
ProcessFixedLoans ==
    /\ rates_pc = "floating_done"
    /\ fixed_results' = ProcessFixedLoansDataframe(fixed_df)
    /\ rates_pc' = "fixed_done"
    /\ UNCHANGED <<floating_df, assumptions_dict, fixed_df, floating_results>>
    /\ UNCHANGED <<riskVars, segVars, enrichVars, gridVars, loaderVars, normVars, lookupVars>>

RatesNext ==
    \/ ProcessFloatingLoans
    \/ ProcessFixedLoans

----------------------------------------------------------------------------
(* Date grid: generate_month_end_dates_list of assumption.py *)

IsLeapYear(y) == (y % 4 = 0 /\ y % 100 # 0) \/ y % 400 = 0

DaysInMonth(y, m) ==
    IF m = 2 THEN (IF IsLeapYear(y) THEN 29 ELSE 28)
    ELSE IF m \in {4, 6, 9, 11} THEN 30
    ELSE 31

MakeDate(y, m, d) == y * 10000 + m * 100 + d

\* date.replace(day=1)
ReplaceDayOne(date) == MakeDate(Year(date), Month(date), 1)

\* date + pd.DateOffset(months=1): the same day of the next month, or that
\* month's last day when it has no such day
AddOneMonth(date) ==
    LET y == IF Month(date) = 12 THEN Year(date) + 1 ELSE Year(date)
        m == IF Month(date) = 12 THEN 1 ELSE Month(date) + 1
    IN MakeDate(y, m, Min(Day(date), DaysInMonth(y, m)))

\* date - pd.DateOffset(days=1)
SubtractOneDay(date) ==
    IF Day(date) > 1 THEN date - 1
    ELSE LET y == IF Month(date) = 1 THEN Year(date) - 1 ELSE Year(date)
             m == IF Month(date) = 1 THEN 12 ELSE Month(date) - 1
         IN MakeDate(y, m, DaysInMonth(y, m))

\* current = valuation_date.replace(day=1); current + 1 month - 1 day
FirstMonthEnd(date) == SubtractOneDay(AddOneMonth(ReplaceDayOne(date)))

\* current = current + 1 month, without the step back to a month's last day
NextMonthSameDay(date) == AddOneMonth(date)

\* current = current + 1 month; current.replace(day=1) + 1 month - 1 day
NextMonthEnd(date) == SubtractOneDay(AddOneMonth(ReplaceDayOne(AddOneMonth(date))))

\* the condition of the while loop
MonthNotAfter(date, limit) ==
    \/ Year(date) < Year(limit)
    \/ (Year(date) = Year(limit) /\ Month(date) <= Month(limit))

\* the valuation dates and largest maturity dates of the model
ValuationDates == {20200905, 20200930, 20191231, 20200131, 20200201}
MaxMaturityDates ==
    {20210115, 20200920, 20200930, 20200815, 20191130, 20200229, 20210228, 20201231}

GridInit ==
    /\ valuation_date \in ValuationDates
    /\ max_maturity_date \in MaxMaturityDates
    /\ dates = <<>>
    /\ current = 0
    /\ grid_pc = "start"

\* a start that never advances by one more month
GridStartWithoutAdvance ==
    /\ grid_pc = "start"
    /\ dates' = <<valuation_date>>
    /\ current' = FirstMonthEnd(valuation_date)
    /\ grid_pc' = "loop"
    /\ UNCHANGED <<valuation_date, max_maturity_date>>
    /\ UNCHANGED <<riskVars, segVars, enrichVars, ratesVars, loaderVars, normVars, lookupVars>>

\* lines 136-144: dates = [valuation_date], current = the first month end after it
GridStart ==
    /\ grid_pc = "start"
    /\ dates' = <<valuation_date>>
    /\ current' = IF FirstMonthEnd(valuation_date) <= valuation_date
                  THEN NextMonthEnd(FirstMonthEnd(valuation_date))
                  ELSE FirstMonthEnd(valuation_date)
    /\ grid_pc' = "loop"
    /\ UNCHANGED <<valuation_date, max_maturity_date>>
    /\ UNCHANGED <<riskVars, segVars, enrichVars, ratesVars, loaderVars, normVars, lookupVars>>

\* one turn of the while loop
GridAppend ==
    /\ grid_pc = "loop"
    /\ MonthNotAfter(current, max_maturity_date)
    /\ dates' = Append(dates, current)
    /\ current' = NextMonthEnd(current)
    /\ UNCHANGED <<valuation_date, max_maturity_date, grid_pc>>
    /\ UNCHANGED <<riskVars, segVars, enrichVars, ratesVars, loaderVars, normVars, lookupVars>>

\* the loop ends: return dates
GridReturn ==
    /\ grid_pc = "loop"
    /\ ~MonthNotAfter(current, max_maturity_date)
    /\ grid_pc' = "done"
    /\ UNCHANGED <<valuation_date, max_maturity_date, dates, current>>
    /\ UNCHANGED <<riskVars, segVars, enrichVars, ratesVars, loaderVars, normVars, lookupVars>>

GridNext ==
    \/ GridStart
    \/ GridAppend
    \/ GridReturn

----------------------------------------------------------------------------
(* Assumption tables: ExcelTableLoader of input_data/assumption_tables.py *)

HasPercent(pieces) == \E i \in 1..Len(pieces) : pieces[i] = "%"

\* _safe_convert_value: a text is read by float(), without its '%' when it has
\* one, and kept as it is; a number strictly between -1 and 1 other than 0 is
\* multiplied by 100; whatever else, and whatever raises, gives 0.0
SafeConvertValue(rate_value) ==
    IF rate_value.k = "str"
    THEN IF HasPercent(rate_value.s)
         THEN IF FloatRaises(WithoutPercent(rate_value.s)) THEN Num(0)
              ELSE Num(FloatOf(WithoutPercent(rate_value.s)))
         ELSE IF FloatRaises(rate_value.s) THEN Num(0)
              ELSE Num(FloatOf(rate_value.s))
    ELSE IF rate_value.k = "num"
         THEN IF -100 < rate_value.n /\ rate_value.n < 100 /\ rate_value.n # 0
              THEN Num(rate_value.n * 100)
              ELSE rate_value
    ELSE Num(0)

\* str(val).strip() of a cell of the sheet
StrStrip(c) ==
    IF c.k = "str" THEN Strip(c.s)
    ELSE IF c.k = "ts" THEN TimestampStr(c.n)
    ELSE <<"nan">>

\* df_sheet.iloc[j, :].isnull().all()
RowIsNull(row) == \A c \in 1..Len(row) : IsNa(row[c])

\* the row whose column A holds the table name, or 0
StartIdx(sheet, name) ==
    LET found == {i \in 1..Len(sheet) : StrStrip(sheet[i][1]) = <<name>>}
    IN IF found = {} THEN 0 ELSE CHOOSE i \in found : \A j \in found : i <= j

\* the data rows: those after the header up to the first row that is all null
DataRows(sheet, start_idx) ==
    {j \in (start_idx + 1)..Len(sheet) :
        \A k \in (start_idx + 1)..j : ~RowIsNull(sheet[k])}

\* table_dict[loan_type] of one data row
RowDict(header, row) ==
    LET cols == {c \in 2..Len(header) : ~IsNa(row[c])}
    IN IF cols = {} THEN <<>>
       ELSE [key \in {StrStrip(header[c]) : c \in cols} |->
                SafeConvertValue(row[CHOOSE c \in cols : StrStrip(header[c]) = key])]

\* _read_single_table: a later row replaces an earlier row of the same loan type
ReadSingleTable(sheet, name) ==
    LET start_idx == StartIdx(sheet, name)
        rows == DataRows(sheet, start_idx)
    IN IF start_idx = 0 \/ rows = {} THEN <<>>
       ELSE [loan_type \in {StrStrip(sheet[j][1]) : j \in rows} |->
                RowDict(sheet[start_idx],
                        sheet[SetMax({j \in rows : StrStrip(sheet[j][1]) = loan_type})])]

----------------------------------------------------------------------------
(* Inputs of the table loader *)

\* the cells of a rate column: 0.14, 14, 0, 1, -0.51, -1 and 0.99 as numbers,
\* numbers as texts with and without '%', a text that is no number, no value
SheetValueCells ==
    {NaN, Num(14), Num(1400), Num(0), Num(100), Num(-51), Num(-100), Num(99),
     Str(<<"0.14">>), Str(<<"14">>), Str(<<"-0.51">>), Str(<<"10", "%">>),
     Str(<<"0.14", "%">>), Str(<<"n/a">>)}

SheetHeaderRow(label) == <<Str(label), Ts(20201231), Str(MdyDate(20210630))>>

SheetDataRows ==
    {<<label, value, second>> :
        label \in {Str(<<"EURIBOR 3M">>), Str(<<Blank, "LIBOR">>)},
        value \in SheetValueCells, second \in {NaN, Num(200)}}

\* a sheet: rows above the table, its header row, its data rows, and either
\* the end of the sheet or an empty row followed by a row that is not its own
Sheets ==
    {above \o <<SheetHeaderRow(label)>> \o data \o below :
        above \in {<<>>, <<<<Str(<<"Notes">>), NaN, NaN>>>>},
        label \in {<<"Index Type">>, <<Blank, "Index Type", Blank>>, <<"Index Types">>},
        data \in UNION {[1..n -> SheetDataRows] : n \in 0..MaxSheetRows},
        below \in {<<>>, <<<<NaN, NaN, NaN>>, <<Str(<<"SOFR">>), Num(14), NaN>>>>}}

LoaderInit ==
    /\ df_sheet \in Sheets
    /\ table_name \in {"Index Type", "Prepayment Risk"}
    /\ table_dict = <<>>
    /\ loader_pc = "start"

\* table_dict = self._read_single_table(df_sheet, table_name)
ReadTable ==
    /\ loader_pc = "start"
    /\ table_dict' = ReadSingleTable(df_sheet, table_name)
    /\ loader_pc' = "read"
    /\ UNCHANGED <<df_sheet, table_name>>
    /\ UNCHANGED <<riskVars, segVars, enrichVars, ratesVars, gridVars, normVars, lookupVars>>

LoaderNext == ReadTable

----------------------------------------------------------------------------
(* The percent normalization applied to one value, once and a second time *)

\* source values: the numbers from -1.5 to 1.5 by hundredths, and the cells of
\* a rate column
NormalizeInputs ==
    {Num(n) : n \in (0 - MaxHundredths)..MaxHundredths} \cup (SheetValueCells \ {NaN})

NormInit ==
    /\ source_value \in NormalizeInputs
    /\ normalized = NaN
    /\ renormalized = NaN
    /\ norm_pc = "source"

\* normalized = _safe_convert_value(source_value)
Normalize ==
    /\ norm_pc = "source"
    /\ normalized' = SafeConvertValue(source_value)
    /\ norm_pc' = "once"
    /\ UNCHANGED <<source_value, renormalized>>
    /\ UNCHANGED <<riskVars, segVars, enrichVars, ratesVars, gridVars, loaderVars, lookupVars>>

\* renormalized = _safe_convert_value(normalized)
NormalizeAgain ==
    /\ norm_pc = "once"
    /\ renormalized' = SafeConvertValue(normalized)
    /\ norm_pc' = "twice"
    /\ UNCHANGED <<source_value, normalized>>
    /\ UNCHANGED <<riskVars, segVars, enrichVars, ratesVars, gridVars, loaderVars, lookupVars>>

NormNext ==
    \/ Normalize
    \/ NormalizeAgain

----------------------------------------------------------------------------
(* The risk lookup: _create_optimized_risk_lookup of input_data/combined_risk.py *)

\* the elements of a finite set in some order
SeqOfSet(S) ==
    CHOOSE q \in [1..Cardinality(S) -> S] :
        \A i, j \in 1..Cardinality(S) : i # j => q[i] # q[j]

\* pd.DataFrame(d).T.reset_index().rename(columns={"index": "Type of Loan"}): a
\* row per loan type, a column per date key of any loan type, a missing value
\* where the loan type has no entry for the key
FrameFromDict(d) ==
    LET keys == SeqOfSet(UNION {DOMAIN d[t] : t \in DOMAIN d})
        types == SeqOfSet(DOMAIN d)
    IN [columns |-> [c \in 1..Len(keys) |-> Str(<<keys[c]>>)],
        rows |-> [r \in 1..Len(types) |->
                    [type |-> types[r],
                     values |-> [c \in 1..Len(keys) |->
                                    IF keys[c] \in DOMAIN d[types[r]]
                                    THEN d[types[r]][keys[c]] ELSE NaN]]]]

\* step 0 of assign_combined_risk_rates: a dict is converted, a DataFrame is kept
AsFrame(table) == IF table.form = "dict" THEN FrameFromDict(table.data) ELSE table.data

\* df.melt(id_vars=["Type of Loan"], var_name="Date", ...): one long row per
\* row and date column of the wide table
Melt(frame) ==
    {[type |-> frame.rows[r].type, date |-> frame.columns[c],
      value |-> frame.rows[r].values[c]] :
        r \in 1..Len(frame.rows), c \in 1..Len(frame.columns)}

LongValue(long, type, date) ==
    IF \E x \in long : x.type = type /\ x.date = date
    THEN (CHOOSE x \in long : x.type = type /\ x.date = date).value
    ELSE NaN

\* a merge that keeps the keys both tables have
MergeInner(cost_long, prepay_long) ==
    {[type |-> x.type, date |-> x.date,
      cost |-> LongValue(cost_long, x.type, x.date),
      prepay |-> LongValue(prepay_long, x.type, x.date)] :
        x \in {y \in cost_long :
                  \E z \in prepay_long : z.type = y.type /\ z.date = y.date}}

\* pd.merge(cost_long, prepay_long, on=["Type of Loan", "Date"], how="outer")
MergeOuter(cost_long, prepay_long) ==
    {[type |-> k[1], date |-> k[2],
      cost |-> LongValue(cost_long, k[1], k[2]),
      prepay |-> LongValue(prepay_long, k[1], k[2])] :
        k \in {<<x.type, x.date>> : x \in cost_long \cup prepay_long}}

\* .fillna(0).values of a rate column
RateOrZero(c) == IF IsNa(c) THEN 0 ELSE c.n

\* _create_optimized_risk_lookup: per loan type the dates, sorted, with the two
\* rates of each date
CreateOptimizedRiskLookup(cost_frame, prepay_frame) ==
    LET merged == MergeOuter(Melt(cost_frame), Melt(prepay_frame))
        risk_df == {[type |-> x.type, date |-> ToDatetimeCoerce(x.date).n,
                     cost |-> x.cost, prepay |-> x.prepay] : x \in merged}
        type_data(t) == {x \in risk_df : x.type = t}
        sorted(t) == SetToSortedSeq({x.date : x \in type_data(t)})
        at(t, d) == CHOOSE x \in type_data(t) : x.date = d
    IN [t \in {x.type : x \in risk_df} |->
          [dates |-> sorted(t),
           cost_risk |-> [i \in 1..Len(sorted(t)) |-> RateOrZero(at(t, sorted(t)[i]).cost)],
           prepay_risk |->
               [i \in 1..Len(sorted(t)) |-> RateOrZero(at(t, sorted(t)[i]).prepay)]]]

----------------------------------------------------------------------------
(* Inputs of the risk lookup *)

LookupLoanTypes == {"Other", "Factoring"}

\* the rate a table holds for a loan type at a date key: it tells the table, the
\* loan type and the date
TableRate(base, t, key) ==
    Num(base + (IF t = "Other" THEN 0 ELSE 20) + DateTexts[key])

\* the mapping form: loan type -> date key -> rate, as _read_single_table gives
\* it; a loan type may lack a date, or every date, and a table may lack a loan type
RiskDicts(base) ==
    {[t \in types |-> [key \in keys[t] |-> TableRate(base, t, key)]] :
        types \in SUBSET LookupLoanTypes,
        keys \in [LookupLoanTypes -> SUBSET DOMAIN DateTexts]}

\* the wide-table form of the same data: the date columns are Timestamps
WideTable(d) ==
    LET frame == FrameFromDict(d)
    IN [columns |-> [c \in 1..Len(frame.columns) |-> ToDatetimeCoerce(frame.columns[c])],
        rows |-> frame.rows]

RiskTables(base) ==
    {[form |-> "dict", data |-> d] : d \in RiskDicts(base)}
    \cup {[form |-> "wide", data |-> WideTable(d)] : d \in RiskDicts(base)}

LookupInit ==
    /\ cost_risk_df \in RiskTables(10)
    /\ prepayment_risk_df \in RiskTables(50)
    /\ cost_risk_df.form = prepayment_risk_df.form
    /\ lookup_pc = "start"

\* risk_lookup = _create_optimized_risk_lookup(cost_risk_df, prepayment_risk_df)
CreateLookup ==
    /\ lookup_pc = "start"
    /\ risk_lookup' =
          CreateOptimizedRiskLookup(AsFrame(cost_risk_df), AsFrame(prepayment_risk_df))
    /\ lookup_pc' = "built"
    /\ UNCHANGED <<cost_risk_df, prepayment_risk_df>>
    /\ UNCHANGED <<loans, cpu_count, rpc, chunks, chunk_status, processed_chunks, result>>
    /\ UNCHANGED <<segVars, enrichVars, ratesVars, gridVars, loaderVars, normVars>>

LookupNext == CreateLookup

----------------------------------------------------------------------------
(* Claims on the risk-curve assignment *)

RiskRatesOf(table) == [i \in 1..Len(table) |-> table[i].risk_rates]

\* C1: for every loan table, rows of different loan types interleaved or not, the
\* sequential path and the parallel path give every loan row the same risk_rates:
\* the table returned for a bucket is the one either path computes for it.
C1_PathsAssignSameRiskRates ==
    (rpc = "done" /\ loans # <<>>) =>
        /\ RiskRatesOf(result) = RiskRatesOf(ProcessLoansVectorized(loans, risk_lookup))
        /\ RiskRatesOf(result) = RiskRatesOf(ProcessLoansParallel(loans, risk_lookup, cpu_count))

\* the entries of a loan's own RiskLookup that the claim C2 asks for: those dated
\* on or before the loan's own maturity, all of them when the maturity is missing,
\* none when the loan type has no lookup
OwnRiskRates(row, lookup) ==
    IF row.type \notin DOMAIN lookup THEN EmptyRiskJson
    ELSE LET rd == lookup[row.type]
             keep == SetToSortedSeq({i \in 1..Len(rd.dates) :
                                        row.maturity.k # "ts" \/ rd.dates[i] <= row.maturity.n})
         IN [Date |-> [i \in 1..Len(keep) |-> DateString(rd.dates[keep[i]])],
             CostOfRisk |-> [i \in 1..Len(keep) |-> rd.cost_risk[keep[i]]],
             PrepaymentRisk |-> [i \in 1..Len(keep) |-> rd.prepay_risk[keep[i]]]]

\* C2: after assign_combined_risk_rates every row of the table, on whichever path
\* was taken, holds the entries of its own loan type's lookup dated on or before
\* its own maturity date, each date with its own two rates.
C2_EachLoanGetsOwnRiskRates ==
    (rpc = "done" /\ loans # <<>>) =>
        /\ Len(result) = Len(loans)
        /\ \A i \in 1..Len(loans) :
              /\ result[i].rid = loans[i].rid
              /\ result[i].risk_rates = OwnRiskRates(loans[i], risk_lookup)

InParallelPath ==
    rpc = "workers" \/ (rpc = "done" /\ Len(loans) > ParallelThreshold)

\* C3: in the parallel path the chunks are non-empty contiguous ranges that make
\* up the table (every loan in exactly one chunk), and whatever the order in which
\* the workers finish, the reassembled table lists every input loan once, in the
\* input order, with the risk_rates computed for that loan.
C3_ChunksReassembledInInputOrder ==
    /\ InParallelPath =>
          /\ Flatten(chunks) = CoerceMaturity(loans)
          /\ \A c \in 1..Len(chunks) : Len(chunks[c]) >= 1
    /\ (rpc = "done" /\ Len(loans) > ParallelThreshold) =>
          /\ Len(result) = Len(loans)
          /\ \A i \in 1..Len(loans) :
                /\ result[i].rid = i
                /\ result[i].type = loans[i].type
                /\ result[i].risk_rates = OwnRiskRates(loans[i], risk_lookup)

\* a later chunk has completed while the first one is still being processed
C3_FinishedOutOfOrder ==
    /\ rpc = "workers"
    /\ Len(chunks) >= 3
    /\ chunk_status[1] = "running"
    /\ chunk_status[3] = "done"
    /\ processed_chunks[3] # <<>>

\* the parallel path has returned a table that was cut into several chunks and
\* whose loans do not all have the same risk_rates
C3_Witness ==
    /\ rpc = "done"
    /\ Len(chunks) >= 3
    /\ \E i, j \in 1..Len(result) : result[i].risk_rates # result[j].risk_rates

----------------------------------------------------------------------------
(* Claims on the segmentation *)

\* the index labels of a table's rows, and how often a label occurs in it
RowsOf(table) == {table[i].row : i \in 1..Len(table)}
Occurrences(table, row) == Cardinality({i \in 1..Len(table) : table[i].row = row})

\* a text without its blanks
NonBlank(text) == SelectSeq(text, LAMBDA x : x # Blank)

\* the loan type of a cell is a key of the lookup table once trimmed
IsLookupKey(cell) ==
    cell.k = "str" /\ \E key \in DOMAIN CalculationTypes : NonBlank(cell.s) = <<key>>

IsCalledBankGuarantee(cell) ==
    cell.k = "str" /\ NonBlank(cell.s) = <<"Called Bank Guarantee">>

\* the buckets the specification lists ("Not Found" is its NotFound)
SpecBuckets == {"1", "2", "3", "4", "Asset", "Special", "Not Found"}

\* C5 as stated: every loan type is assigned a Type of Calculation among 1, 2, 3,
\* 4, Asset, Special and NotFound, and every trimmed string that is no key of the
\* lookup table is assigned NotFound.
C5_BucketAmongSpecBuckets ==
    spc # "start" =>
        \A i \in 1..Len(seg_locals.PL_dataset) :
            LET r == seg_locals.PL_dataset[i]
            IN /\ r.calc \in SpecBuckets
               /\ ~IsLookupKey(datatape_df[r.row].type) => r.calc = "Not Found"

\* C5 amended: the Type of Calculation is among 1, 2, 3, 4, Asset, Special,
\* non-performing and NotFound, non-performing being assigned to Called Bank
\* Guarantee and to no other loan type, and every trimmed string that is no key
\* of the lookup table is assigned NotFound.
C5_BucketAmongCodeBuckets ==
    spc # "start" =>
        \A i \in 1..Len(seg_locals.PL_dataset) :
            LET r == seg_locals.PL_dataset[i]
            IN /\ r.calc \in SpecBuckets \cup {"non-performing"}
               /\ r.calc = "non-performing" <=> IsCalledBankGuarantee(datatape_df[r.row].type)
               /\ ~IsLookupKey(datatape_df[r.row].type) => r.calc = "Not Found"

\* a padded Called Bank Guarantee loan has been given its Type of Calculation
C5_Witness ==
    /\ spc = "segmented"
    /\ \E i \in 1..Len(seg_locals.PL_dataset) :
          /\ seg_locals.PL_dataset[i].calc = "non-performing"
          /\ Len(datatape_df[seg_locals.PL_dataset[i].row].type.s) = 3

\* the spellings of the sentinel texts that occur in the model's cells
SentinelSpellings ==
    {<<>>, <<"not available">>, <<"Not Available">>, <<"not applicable">>,
     <<"NOT APPLICABLE">>, <<"Not applicable">>, <<"nan">>, <<"NaN">>,
     <<"null">>, <<"NULL">>}

\* missing, blank or a sentinel text in any case
Unusable(cell) ==
    cell.k \in {"nan", "nat"} \/ (cell.k = "str" /\ NonBlank(cell.s) \in SentinelSpellings)

ExemptLoanType(cell) ==
    /\ cell.k = "str"
    /\ NonBlank(cell.s) \in {<<"Current Account">>, <<"Overdraft">>, <<"Credit Card">>}

\* the three conditions of the problematic-loan rule on a row of the input
ProblematicCondition(raw) ==
    /\ Unusable(raw.maturity)
    /\ ~ExemptLoanType(raw.type)
    /\ (Unusable(raw.balance) \/ raw.balance = Num(0))

\* C6: a PL loan is in the problematic report if and only if its maturity date is
\* missing, blank or a sentinel text (in any case), its loan type is not Current
\* Account, Overdraft or Credit Card, and its outstanding balance is missing,
\* blank, a sentinel text or exactly zero.
C6_ProblematicIffAllThree ==
    spc # "start" =>
        \A i \in 1..Len(seg_locals.PL_split) :
            LET row == seg_locals.PL_split[i].row
            IN Occurrences(complete_results.problematic_loans, row) = 1
               <=> ProblematicCondition(datatape_df[row])

\* a loan whose maturity and balance are sentinel texts is in the report
C6_Witness ==
    /\ spc = "segmented"
    /\ \E i \in 1..Len(complete_results.problematic_loans) :
          /\ complete_results.problematic_loans[i].maturity.k = "str"
          /\ complete_results.problematic_loans[i].maturity.s # <<>>
          /\ complete_results.problematic_loans[i].balance.k = "str"

\* C7: the problematic loans and the PL loans kept for processing are disjoint
\* and together are exactly the original PL loans, without duplicates; a PL row
\* leaves the processing only if that row itself is problematic; and
\* performing_count and problematic_loans_count add up to the original PL count.
C7_ProblematicAndKeptPartitionPL ==
    spc # "start" =>
        LET problematic == complete_results.problematic_loans
            kept == seg_locals.PL_dataset
            original == seg_locals.PL_split
        IN /\ Len(problematic) + Len(kept) = Len(original)
           /\ RowsOf(problematic) \cap RowsOf(kept) = {}
           /\ RowsOf(problematic) \cup RowsOf(kept) = RowsOf(original)
           /\ \A row \in RowsOf(original) :
                 Occurrences(problematic, row) + Occurrences(kept, row) = 1
           /\ \A row \in RowsOf(original) \ RowsOf(kept) :
                 ProblematicCondition(datatape_df[row])
           /\ complete_results.summary.performing_count
                + complete_results.summary.problematic_loans_count = Len(original)

\* the tables process_loans_dataframe_segmentation returns
OutputGroups(cr) ==
    cr.performing_loans.floating \o cr.performing_loans.fixed
    \o <<cr.performing_loans.assets, cr.performing_loans.special,
         cr.non_performing_loans.with_guarantees,
         cr.non_performing_loans.without_guarantees,
         cr.problematic_loans>>

GroupsHolding(cr, row) ==
    {g \in 1..Len(OutputGroups(cr)) : row \in RowsOf(OutputGroups(cr)[g])}

\* C8: every row of the input loan table is in at least one output of the
\* segmentation: a PL group, an NPL group or the problematic report.
C8_EveryRowInSomeOutput ==
    spc # "start" =>
        \A i \in 1..Len(datatape_df) : GroupsHolding(complete_results, i) # {}

\* how often a row occurs in the combined buckets, and with which tags
CombinedOccurrences(row) ==
    {<<b, j>> \in (1..4) \X (1..MaxRows) :
        j <= Len(combined_loans[b]) /\ combined_loans[b][j].row = row}

NoRowInTwoGroups ==
    \A i \in 1..Len(datatape_df) :
        /\ Cardinality(GroupsHolding(complete_results, i)) <= 1
        /\ \A g \in GroupsHolding(complete_results, i) :
              Occurrences(OutputGroups(complete_results)[g], i) = 1

\* C9 as stated: every loan kept for processing has exactly one calculation
\* bucket, no loan row is in two output groups at once, and every PL loan kept
\* for processing carries exactly one floating/fixed tag.
C9_OneBucketOneTag ==
    spc = "combined" =>
        /\ NoRowInTwoGroups
        /\ \A row \in RowsOf(seg_locals.PL_dataset) :
              /\ Occurrences(seg_locals.PL_dataset, row) = 1
              /\ Cardinality(CombinedOccurrences(row)) = 1
              /\ \A o \in CombinedOccurrences(row) :
                    combined_loans[o[1]][o[2]].interest_rate_type \in {"floating", "fixed"}

NumberedBuckets == {"1", "2", "3", "4"}

\* C9 amended: every PL loan kept for processing has exactly one calculation
\* bucket, no loan row is in two output groups at once, and every kept PL loan of
\* a numbered bucket carries exactly one floating/fixed tag, in the combined
\* bucket of its number (floating exactly when its Interest Rate Type is
\* "Floating"); the kept PL loans of the other buckets carry none.
C9_OneBucketTagInNumberedBuckets ==
    spc = "combined" =>
        /\ NoRowInTwoGroups
        /\ \A i \in 1..Len(seg_locals.PL_dataset) :
              LET r == seg_locals.PL_dataset[i]
              IN /\ Occurrences(seg_locals.PL_dataset, r.row) = 1
                 /\ r.calc \in NumberedBuckets =>
                       /\ Cardinality(CombinedOccurrences(r.row)) = 1
                       /\ \A o \in CombinedOccurrences(r.row) :
                             /\ ToString(o[1]) = r.calc
                             /\ combined_loans[o[1]][o[2]].interest_rate_type =
                                   IF datatape_df[r.row].rate_type = "Floating"
                                   THEN "floating" ELSE "fixed"
                 /\ r.calc \notin NumberedBuckets => CombinedOccurrences(r.row) = {}

\* a table with a floating and a fixed loan of bucket 1 has been combined
C9_Witness ==
    /\ spc = "combined"
    /\ Len(combined_loans[1]) = 2
    /\ combined_loans[1][1].interest_rate_type = "floating"
    /\ combined_loans[1][2].interest_rate_type = "fixed"

\* a 'Past Due Date' cell that holds a date: a Timestamp or a date text
HoldsDate(cell) ==
    cell.k = "ts" \/ (cell.k = "str" /\ Len(cell.s) = 1 /\ cell.s[1] \in DOMAIN DateTexts)

GuaranteeSource ==
    IF guarantees_df.complex THEN guarantees_df.rows ELSE seg_locals.NPL_dataset

\* some row of the source with this loan id holds a guarantee value > 0
Guaranteed(id) ==
    \E i \in 1..Len(GuaranteeSource) :
        /\ GuaranteeSource[i].id = id
        /\ GuaranteeSource[i].guarantee.k = "num"
        /\ GuaranteeSource[i].guarantee.n > 0

\* C11: among the NPL loans, a loan is in 'with guarantee' if and only if the
\* largest guarantee value over the rows with its loan id, a missing value
\* counting as 0, is > 0, and in 'without guarantee' otherwise; every NPL loan
\* is in exactly one of the two groups and the groups hold nothing else, with
\* the values read from the embedded column or from the separate table.
C11_GuaranteeSplitByMaxPerLoanId ==
    spc # "start" =>
        LET npl == seg_locals.NPL_dataset
            with == complete_results.non_performing_loans.with_guarantees
            without == complete_results.non_performing_loans.without_guarantees
        IN /\ \A i \in 1..Len(npl) :
                /\ Occurrences(with, npl[i].row) + Occurrences(without, npl[i].row) = 1
                /\ Occurrences(with, npl[i].row) = 1 <=> Guaranteed(npl[i].id)
           /\ RowsOf(with) \cup RowsOf(without) = RowsOf(npl)

\* two non-performing loans have been split on the values of the separate
\* table, which gives one of them a 0 and a positive value and contradicts the
\* loan table's own column
C11_Witness ==
    /\ spc = "segmented"
    /\ guarantees_df.complex
    /\ Len(guarantees_df.rows) >= 2
    /\ \E g, h \in 1..Len(guarantees_df.rows) :
          /\ g < h
          /\ guarantees_df.rows[g].id = guarantees_df.rows[h].id
          /\ guarantees_df.rows[g].guarantee = Num(0)
          /\ guarantees_df.rows[h].guarantee.n > 0
    /\ Len(complete_results.non_performing_loans.with_guarantees) = 1
    /\ Len(complete_results.non_performing_loans.without_guarantees) = 1
    /\ complete_results.non_performing_loans.with_guarantees[1].guarantee = NaN
    /\ complete_results.non_performing_loans.without_guarantees[1].guarantee = Num(5)

\* the rows of the performing table that the lookup table sends to a bucket
RowsSentTo(label) ==
    {seg_locals.PL_dataset[j].row :
        j \in {k \in 1..Len(seg_locals.PL_dataset) : seg_locals.PL_dataset[k].calc = label}}

\* the rows of a bucket whose 'Interest Rate Type' is exactly 'Floating'
ExactlyFloating(label) ==
    {r \in RowsSentTo(label) : datatape_df[r].rate_type = "Floating"}

\* every row of a returned group appears in it once
NoRepeats(table) == \A r \in RowsOf(table) : Occurrences(table, r) = 1

\* C26: within each numbered bucket 1-4 a loan is in the floating group if and
\* only if its Interest Rate Type is exactly the string 'Floating' and in the
\* fixed group otherwise; the two groups are disjoint and together are the
\* whole bucket; the Asset and Special buckets are returned unsplit.
C26_FloatingIffExactlyFloating ==
    spc # "start" =>
        LET pl == complete_results.performing_loans IN
        /\ \A i \in 1..4 :
              /\ RowsOf(pl.floating[i]) = ExactlyFloating(ToString(i))
              /\ RowsOf(pl.fixed[i]) =
                    RowsSentTo(ToString(i)) \ ExactlyFloating(ToString(i))
              /\ RowsOf(pl.floating[i]) \cap RowsOf(pl.fixed[i]) = {}
              /\ NoRepeats(pl.floating[i]) /\ NoRepeats(pl.fixed[i])
        /\ RowsOf(pl.assets) = RowsSentTo("Asset") /\ NoRepeats(pl.assets)
        /\ RowsOf(pl.special) = RowsSentTo("Special") /\ NoRepeats(pl.special)

\* a segmented bucket 1 with a loan in each group, or with a loan whose rate
\* type differs from 'Floating' only by case in the fixed group
C26_Witness ==
    /\ spc = "segmented"
    /\ \/ /\ Len(complete_results.performing_loans.floating[1]) = 1
          /\ Len(complete_results.performing_loans.fixed[1]) = 1
       \/ /\ Len(complete_results.performing_loans.fixed[1]) = 1
          /\ complete_results.performing_loans.fixed[1][1].rate_type = "floating"

\* the loan types the two lookup tables are known to send to different buckets
DivergingTypes == {"Overdraft", "Credit Card", "Current Account"}

\* the rows of the performing table at segmentation whose loan type is a key
RowsOfTypes(keys) ==
    {k \in 1..Len(seg_locals.PL_dataset) :
        /\ Len(seg_locals.PL_dataset[k].type.s) = 1
        /\ seg_locals.PL_dataset[k].type.s[1] \in keys}

\* the bucket of group_by_calculation_type is the one of prepare_rates_fees_dict
SameBucket(k) ==
    seg_locals.PL_dataset[k].calc = FeeCalculationType(seg_locals.PL_dataset[k].type.s[1])

\* C27: the lookup table of group_by_calculation_type and the one of
\* prepare_rates_fees_dict assign the same bucket to every loan type except
\* Overdraft, Credit Card and Current Account.
C27_SameBucketExceptDivergingTypes ==
    spc # "start" =>
        \A k \in RowsOfTypes((DOMAIN CalculationTypes \cup DOMAIN EnrichCalculationTypes)
                                \ DivergingTypes) : SameBucket(k)

\* C27 as the tables have it: the same bucket for every loan type both tables
\* list except Overdraft, Credit Card and Current Account, which are Special
\* at segmentation and 3 or 4 at enrichment; the two bank guarantee types are
\* listed at segmentation only.
C27_SameBucketForSharedTypes ==
    spc # "start" =>
        /\ \A k \in RowsOfTypes(DOMAIN EnrichCalculationTypes \ DivergingTypes) :
              SameBucket(k)
        /\ \A k \in RowsOfTypes(DivergingTypes) :
              /\ seg_locals.PL_dataset[k].calc = "Special"
              /\ FeeCalculationType(seg_locals.PL_dataset[k].type.s[1]) \in {"3", "4"}
        /\ \A k \in RowsOfTypes(DOMAIN CalculationTypes \ DOMAIN EnrichCalculationTypes) :
              /\ seg_locals.PL_dataset[k].calc \in {"Asset", "non-performing"}
              /\ FeeCalculationType(seg_locals.PL_dataset[k].type.s[1]) = ""

\* a segmented loan of a type that both tables send to bucket 2
C27_Witness ==
    /\ spc = "segmented"
    /\ \E k \in RowsOfTypes({"Discounted Bill/ Note"}) :
          seg_locals.PL_dataset[k].calc = "2"

\* the loan types the fee tables send to the buckets 3 and 4
TypesOfFeeBuckets(buckets) ==
    {t \in DOMAIN EnrichCalculationTypes : EnrichCalculationTypes[t] \in buckets}

\* C28: after segmentation the numbered buckets 3 and 4 (f3, nf3, f4, nf4) are
\* empty for every input loan table; every loan that reaches enrichment is in
\* type_1 or type_2, so the fee dictionaries of the buckets 3 and 4 are applied
\* to no loan.
C28_BucketsThreeAndFourEmpty ==
    /\ spc # "start" =>
          \A i \in {3, 4} :
              /\ complete_results.performing_loans.floating[i] = <<>>
              /\ complete_results.performing_loans.fixed[i] = <<>>
              /\ RowsSentTo(ToString(i)) = {}
    /\ spc = "combined" =>
          /\ combined_loans[3] = <<>> /\ combined_loans[4] = <<>>
          /\ \A k \in RowsOfTypes(TypesOfFeeBuckets({"3", "4"})) :
                \A i \in 1..4 : seg_locals.PL_dataset[k].row \notin RowsOf(combined_loans[i])

\* a combined result whose input holds a performing 'Credit Card' loan, which
\* the fee tables send to bucket 4 and the segmentation returns as special
C28_Witness ==
    /\ spc = "combined"
    /\ \E k \in RowsOfTypes({"Credit Card"}) :
          seg_locals.PL_dataset[k].row \in RowsOf(complete_results.performing_loans.special)

----------------------------------------------------------------------------
(* Claims on the rate curves *)

\* the dates the texts of the model stand for
KnownDates == {20201130, 20201231, 20210630, 20210815, 20211231}

\* the date a date key or a maturity text stands for, in any of its forms
DateOfText(text) ==
    CHOOSE date \in KnownDates :
        text \in {TimestampStr(date), IsoDate(date), MdyDate(date)}

IsDateText(text) ==
    \E date \in KnownDates : text \in {TimestampStr(date), IsoDate(date), MdyDate(date)}

\* a maturity cell that holds a date, and the date it holds
HoldsMaturityDate(cell) == cell.k = "ts" \/ (cell.k = "str" /\ IsDateText(cell.s))
MaturityDateOf(cell) == IF cell.k = "ts" THEN cell.n ELSE DateOfText(cell.s)

\* the index of the loan has a curve with entries
RegisteredIndex(loan) ==
    /\ loan.index.k = "str"
    /\ loan.index.s \in DOMAIN assumptions_dict
    /\ assumptions_dict[loan.index.s] # <<>>

\* C12: for any floating loan, every date key of total_rates is chronologically
\* <= the loan's maturity date, in every textual form of the date keys and of
\* the maturity date; total_rates is empty when the loan's index has no
\* registered curve.
C12_KeysNotAfterMaturity ==
    rates_pc \in {"floating_done", "fixed_done"} =>
        \A i \in 1..Len(floating_results) :
            LET loan == floating_results[i]
            IN /\ HoldsMaturityDate(loan.maturity) =>
                    \A key \in DOMAIN loan.total_rates :
                        DateOfText(key) <= MaturityDateOf(loan.maturity)
               /\ ~RegisteredIndex(loan) => loan.total_rates = <<>>

\* the rate the registered curve of the loan's index holds at a date
CurveRateAt(loan, date) ==
    LET index_rates == assumptions_dict[loan.index.s]
    IN index_rates[CHOOSE i \in 1..Len(index_rates) :
                        DateOfText(index_rates[i].key) = date].rate

\* the dates of the registered curve of the loan's index
CurveDatesOf(loan) ==
    LET index_rates == assumptions_dict[loan.index.s]
    IN {DateOfText(index_rates[i].key) : i \in 1..Len(index_rates)}

\* C13: for a floating loan with a registered index curve and a maturity date,
\* total_rates has an entry for every curve date <= the maturity date and for
\* no other date, and each entry is the index rate at that date plus the
\* loan's margin, both on percent scale (-0.51 with margin 2.00 gives 1.49).
C13_EntryPerCurveDateUpToMaturity ==
    rates_pc \in {"floating_done", "fixed_done"} =>
        \A i \in 1..Len(floating_results) :
            LET loan == floating_results[i]
            IN (/\ RegisteredIndex(loan)
                /\ HoldsMaturityDate(loan.maturity)
                /\ loan.margin.k = "num") =>
                  /\ {DateOfText(key) : key \in DOMAIN loan.total_rates}
                        = {date \in CurveDatesOf(loan) :
                                date <= MaturityDateOf(loan.maturity)}
                  /\ \A key \in DOMAIN loan.total_rates :
                        loan.total_rates[key] =
                            Num(CurveRateAt(loan, DateOfText(key)).n + loan.margin.n)

\* C14: for any fixed loan with a maturity date, total_rates has exactly one
\* entry, keyed by the maturity date, whose value is nominal_rate / 100 when
\* nominal_rate >= 1 and nominal_rate unchanged when nominal_rate < 1 (nominal
\* rate 5 with maturity 2021-06-30 gives 0.05 at 2021-06-30).
C14_OneEntryAtMaturityRateAsDecimal ==
    rates_pc = "fixed_done" =>
        \A i \in 1..Len(fixed_results) :
            LET loan == fixed_results[i]
            IN (HoldsMaturityDate(loan.maturity) /\ loan.rate.k = "num") =>
                  /\ Cardinality(DOMAIN loan.total_rates) = 1
                  /\ \A key \in DOMAIN loan.total_rates :
                        /\ DateOfText(key) = MaturityDateOf(loan.maturity)
                        /\ loan.total_rates[key] =
                              IF loan.rate.n >= 100 THEN Num(loan.rate.n \div 100)
                              ELSE loan.rate

----------------------------------------------------------------------------
(* Claims on the date grid *)

\* the number of a date's month, counted from year 0
MonthNumber(date) == Year(date) * 12 + Month(date)

\* the last calendar day of the month that contains the date
MonthEndOf(date) ==
    MakeDate(Year(date), Month(date), DaysInMonth(Year(date), Month(date)))

\* dates is strictly increasing, starts with the valuation date and goes on
\* with the last days of consecutive months
GridShape ==
    /\ Len(dates) >= 1
    /\ dates[1] = valuation_date
    /\ \A i \in 1..(Len(dates) - 1) : dates[i] < dates[i + 1]
    /\ \A i \in 2..Len(dates) : dates[i] = MonthEndOf(dates[i])
    /\ \A i \in 2..(Len(dates) - 1) : MonthNumber(dates[i + 1]) = MonthNumber(dates[i]) + 1
    /\ Len(dates) >= 2 => MonthNumber(dates[2]) \in
            {MonthNumber(valuation_date), MonthNumber(valuation_date) + 1}

MonthEndOfNumber(mn) ==
    MakeDate((mn - 1) \div 12, ((mn - 1) % 12) + 1,
             DaysInMonth((mn - 1) \div 12, ((mn - 1) % 12) + 1))

\* the first month end to be emitted: that of the valuation month, or of the
\* month after it when the valuation date is itself that month end
FirstEmitted ==
    IF MonthEndOf(valuation_date) > valuation_date
    THEN MonthEndOf(valuation_date)
    ELSE MonthEndOfNumber(MonthNumber(valuation_date) + 1)

\* C25: when the end of the valuation date's own month does not strictly exceed
\* the valuation date, iteration starts one month later, so the second grid
\* element is the last day of the month after the valuation month; otherwise the
\* second element is the last day of the valuation month itself. When the
\* max-maturity month is earlier than the first month end to be emitted, the grid
\* is the valuation date alone.
C25_SecondElementIsFirstMonthEndAfterValuation ==
    grid_pc = "done" =>
        IF MonthNumber(max_maturity_date) < MonthNumber(FirstEmitted)
        THEN dates = <<valuation_date>>
        ELSE /\ Len(dates) >= 2
             /\ dates[1] = valuation_date
             /\ dates[2] = FirstEmitted

\* the valuation date is the last day of January 2020 and the grid goes on with
\* the last day of February
C25_Witness ==
    /\ grid_pc = "done"
    /\ valuation_date = 20200131
    /\ Len(dates) >= 3
    /\ dates[2] = 20200229
    /\ dates[3] = 20200331

----------------------------------------------------------------------------
(* Claims on the assumption tables *)

\* a source cell that holds a number or a numeric text, and its value
IsNumeric(cell) ==
    \/ cell.k = "num"
    \/ cell.k = "str" /\ Len(cell.s) = 1 /\ cell.s[1] \in DOMAIN NumericTexts
NumericValue(cell) == IF cell.k = "num" THEN cell.n ELSE NumericTexts[cell.s[1]]

\* 100 x for x strictly inside (-1, 1) other than 0, x otherwise
PercentNormalized(x) == IF -100 < x /\ x < 100 /\ x # 0 THEN x * 100 ELSE x

\* the data row of the sheet that gives the table its entry for a loan type
SourceRow(loan_type) ==
    LET start_idx == StartIdx(df_sheet, table_name)
        rows == {j \in DataRows(df_sheet, start_idx) :
                    StrStrip(df_sheet[j][1]) = loan_type}
    IN df_sheet[SetMax(rows)]

\* the column of the header row with a date key
SourceColumn(key) ==
    LET header == df_sheet[StartIdx(df_sheet, table_name)]
    IN CHOOSE c \in 2..Len(header) : StrStrip(header[c]) = key

\* C16: the percent normalizer returns 100 x for every source value x strictly
\* inside (-1, 1) other than 0 and x unchanged for every other value, exactly 0
\* included (0.14 gives 14, 14 gives 14, 0 gives 0), whether the source cell
\* holds a number or a numeric text.
C16_PercentNormalizedNumberOrText ==
    loader_pc = "read" =>
        \A loan_type \in DOMAIN table_dict :
            \A key \in DOMAIN table_dict[loan_type] :
                LET cell == SourceRow(loan_type)[SourceColumn(key)]
                IN IsNumeric(cell) =>
                      table_dict[loan_type][key] = Num(PercentNormalized(NumericValue(cell)))

----------------------------------------------------------------------------
(* Claims on absent keys and unusable values *)

AbsentLoanType(row) == row.type \notin DOMAIN risk_lookup

\* C17: a lookup of a loan type that is absent from the risk tables never stops
\* the batch: the loan of the absent type gets empty Date / Cost of Risk /
\* Prepayment Risk arrays and every other loan of the batch still gets the curve
\* of its own loan type.
C17_AbsentLoanTypeGetsEmptyArrays ==
    (rpc = "done" /\ \E i \in 1..Len(loans) : AbsentLoanType(loans[i])) =>
        /\ Len(result) = Len(loans)
        /\ \A i \in 1..Len(loans) :
              IF AbsentLoanType(loans[i])
              THEN result[i].risk_rates = EmptyRiskJson
              ELSE result[i].risk_rates = OwnRiskRates(loans[i], risk_lookup)

\* the parts of C17 on the unregistered index and on the table name not found
UnregisteredIndexGetsEmptyTotalRates ==
    rates_pc \in {"floating_done", "fixed_done"} =>
        \A i \in 1..Len(floating_df) :
            ~RegisteredIndex(floating_df[i]) => floating_results[i].total_rates = <<>>

TableNotFoundGivesEmptyMapping ==
    (loader_pc = "read" /\ StartIdx(df_sheet, table_name) = 0) => table_dict = <<>>

\* a floating loan with a value that cannot be used: a margin that is a text, a
\* maturity date that is a text and no date
UnusableMargin(loan) == loan.margin.k = "str"
UnusableMaturity(loan) == loan.maturity.k = "str" /\ ~IsDateText(loan.maturity.s)

\* C18: a loan record with an unusable value (an unparseable date, a text
\* margin) never aborts the batch: the rate-curve stage does not fail, it gives
\* that loan the empty curve, and every other loan still gets its own curve.
C18_UnusableValueNeverAbortsBatch ==
    /\ rates_pc # "failed"
    /\ rates_pc \in {"floating_done", "fixed_done"} =>
          \A i \in 1..Len(floating_df) :
              IF UnusableMargin(floating_df[i]) \/ UnusableMaturity(floating_df[i])
              THEN floating_results[i].total_rates = <<>>
              ELSE floating_results[i].total_rates =
                      FloatingTotalRates(floating_df[i], assumptions_dict)

\* the part of C18 on the unparseable date alone
UnparseableMaturityGetsEmptyCurve ==
    rates_pc \in {"floating_done", "fixed_done"} =>
        \A i \in 1..Len(floating_df) :
            UnusableMaturity(floating_df[i]) => floating_results[i].total_rates = <<>>

----------------------------------------------------------------------------
(* Claims on missing columns *)

\* the bucket has loans and its table has no 'Currency' column
CurrencyColumnAbsent(t) ==
    /\ combined_with_risks[t] # <<>>
    /\ "currency" \notin DOMAIN combined_with_risks[t][1]

\* C19: when a required column of the loan table is absent (here 'Currency'),
\* the failure is propagated to the caller as an error; the run does not
\* continue with a silently defaulted value in its place.
C19_MissingColumnPropagatedAsError ==
    (epc = "returned" /\ \E t \in TypeIds : CurrencyColumnAbsent(t)) =>
        /\ raised # "none"
        /\ \A t \in TypeIds :
              CurrencyColumnAbsent(t) =>
                  \A i \in 1..Len(combined_with_fixed[t]) :
                      "currency" \notin DOMAIN combined_with_fixed[t][i]

----------------------------------------------------------------------------
(* Claims on loans without a maturity date *)

\* the curve a floating loan, and a fixed loan, gets in a table of its own
FloatingCurveAlone(loan) ==
    ProcessFloatingCalculations(<<loan>>, assumptions_dict)[1].total_rates
FixedCurveAlone(loan) == ProcessFixedLoansDataframe(<<loan>>)[1].total_rates

\* C21: a floating loan and a fixed loan whose maturity date is missing each get
\* an empty total_rates curve (no entry at all), and the other loans of the same
\* table are still given their curves, those they get in a table of their own.
C21_MissingMaturityGetsEmptyCurve ==
    /\ rates_pc \in {"floating_done", "fixed_done"} =>
          /\ Len(floating_results) = Len(floating_df)
          /\ \A i \in 1..Len(floating_df) :
                IF IsNa(floating_df[i].maturity)
                THEN floating_results[i].total_rates = <<>>
                ELSE floating_results[i].total_rates = FloatingCurveAlone(floating_df[i])
    /\ rates_pc = "fixed_done" =>
          /\ Len(fixed_results) = Len(fixed_df)
          /\ \A i \in 1..Len(fixed_df) :
                IF IsNa(fixed_df[i].maturity)
                THEN fixed_results[i].total_rates = <<>>
                ELSE fixed_results[i].total_rates = FixedCurveAlone(fixed_df[i])

\* both stages are done on tables that hold a loan without a maturity date next
\* to a loan that got entries
C21_Witness ==
    /\ rates_pc = "fixed_done"
    /\ \E i, j \in 1..Len(floating_df) :
          /\ IsNa(floating_df[i].maturity) /\ i < j
          /\ floating_df[i].index = floating_df[j].index
          /\ floating_results[j].total_rates # <<>>
    /\ \E i, j \in 1..Len(fixed_df) :
          /\ IsNa(fixed_df[i].maturity)
          /\ fixed_results[j].total_rates # <<>>

----------------------------------------------------------------------------
(* Claims on the percent normalization *)

\* C22: applying the percent normalization a second time to a value the first
\* pass already normalized is a no-op: normalize(normalize(x)) = normalize(x) for
\* every source value x.
C22_SecondNormalizationIsNoOp ==
    norm_pc = "twice" => renormalized = normalized

\* the part of C22 on the source values that are numbers of the model
SecondNormalizationOfNumberIsNoOp ==
    (norm_pc = "twice" /\ source_value.k = "num") => renormalized = normalized

\* a source value after one pass of the percent normalization rule
NormalizedOnce(cell) == IF IsNa(cell) THEN cell ELSE Num(PercentNormalized(cell.n))

\* the source values of the assumption workbook: the fee of a loan type, the FX
\* rate and the tax rate of a currency
SourceFee(loan_type, column) ==
    RatesFeesTable[SetMax({i \in 1..Len(RatesFeesTable) :
                              RatesFeesTable[i].type = loan_type})][column]
FxRows(cur) ==
    {i \in 1..Len(FxTable) : FxTable[i].quote = cur /\ FxTable[i].base = OutputCurrency}
TaxRows(cur) == {i \in 1..Len(TaxTable) : TaxTable[i].currency = cur}

\* the loans of the enriched output
EnrichedLoans ==
    IF epc = "returned" /\ raised = "none"
    THEN {ti \in TypeIds \X (1..MaxBucketRows) : ti[2] <= Len(combined_with_fixed[ti[1]])}
    ELSE {}
EnrichedLoan(ti) == combined_with_fixed[ti[1]][ti[2]]

FeesNormalizedOnce ==
    \A ti \in EnrichedLoans : \A column \in FeeColumns :
        EnrichedLoan(ti)[column] = NormalizedOnce(SourceFee(EnrichedLoan(ti).type, column))

FxRatesNormalizedOnce ==
    \A ti \in EnrichedLoans :
        FxRows(EnrichedLoan(ti).currency) # {} =>
            EnrichedLoan(ti).fx_rate =
                NormalizedOnce(FxTable[SetMin(FxRows(EnrichedLoan(ti).currency))].rate)

TaxRatesNormalizedOnce ==
    \A ti \in EnrichedLoans :
        TaxRows(EnrichedLoan(ti).currency) # {} =>
            EnrichedLoan(ti).tax_rate =
                NormalizedOnce(TaxTable[SetMin(TaxRows(EnrichedLoan(ti).currency))].tax)

\* C23: in one pipeline run every assumption value (discount and fee scalars, FX
\* rates, tax rates) passes through the percent-normalization rule exactly once,
\* where it is loaded, and is never rescaled again before it reaches the enriched
\* output: the value in the output is the source value normalized once.
C23_AssumptionValuesNormalizedExactlyOnce ==
    /\ FeesNormalizedOnce
    /\ FxRatesNormalizedOnce
    /\ TaxRatesNormalizedOnce

----------------------------------------------------------------------------
(* Claims on the risk lookup *)

\* what a risk table holds, read from either of its forms: its loan types, its
\* dates, and the rate of a loan type at a date, 0 when it has none
TableTypes(table) ==
    IF table.form = "dict" THEN DOMAIN table.data
    ELSE {table.data.rows[r].type : r \in 1..Len(table.data.rows)}

TableDays(table) ==
    IF table.form = "dict"
    THEN {DateTexts[key] : key \in UNION {DOMAIN table.data[t] : t \in DOMAIN table.data}}
    ELSE {table.data.columns[c].n : c \in 1..Len(table.data.columns)}

TableRateAt(table, t, day) ==
    IF t \notin TableTypes(table) \/ day \notin TableDays(table) THEN 0
    ELSE IF table.form = "dict"
         THEN LET keys == {key \in DOMAIN table.data[t] : DateTexts[key] = day}
              IN IF keys = {} THEN 0 ELSE table.data[t][CHOOSE key \in keys : TRUE].n
         ELSE LET r == CHOOSE r \in 1..Len(table.data.rows) : table.data.rows[r].type = t
                  c == CHOOSE c \in 1..Len(table.data.columns) :
                          table.data.columns[c].n = day
                  cell == table.data.rows[r].values[c]
              IN IF IsNa(cell) THEN 0 ELSE cell.n

\* the same data in the other form
DictOfWide(wide) ==
    [t \in {wide.rows[r].type : r \in 1..Len(wide.rows)} |->
        LET r == CHOOSE r \in 1..Len(wide.rows) : wide.rows[r].type = t
            filled == {c \in 1..Len(wide.columns) : ~IsNa(wide.rows[r].values[c])}
            key(c) == CHOOSE k \in DOMAIN DateTexts : DateTexts[k] = wide.columns[c].n
        IN [k \in {key(c) : c \in filled} |->
               wide.rows[r].values[CHOOSE c \in filled : key(c) = k]]]

OtherForm(table) ==
    IF table.form = "dict" THEN [form |-> "wide", data |-> WideTable(table.data)]
    ELSE [form |-> "dict", data |-> DictOfWide(table.data)]

\* the dates a loan type has in the lookup: those of the tables that hold it
LookupDays(t) ==
    (IF t \in TableTypes(cost_risk_df) THEN TableDays(cost_risk_df) ELSE {})
    \cup (IF t \in TableTypes(prepayment_risk_df) THEN TableDays(prepayment_risk_df)
          ELSE {})

\* three aligned sequences per loan type of the lookup, and the same lookup from
\* the other form of the two tables
AlignedSequences ==
    \A t \in DOMAIN risk_lookup :
        LET entry == risk_lookup[t]
        IN /\ Len(entry.cost_risk) = Len(entry.dates)
           /\ Len(entry.prepay_risk) = Len(entry.dates)
           /\ \A i, j \in 1..Len(entry.dates) : i < j => entry.dates[i] < entry.dates[j]
           /\ {entry.dates[i] : i \in 1..Len(entry.dates)} = LookupDays(t)
           /\ \A i \in 1..Len(entry.dates) :
                 /\ entry.cost_risk[i] = TableRateAt(cost_risk_df, t, entry.dates[i])
                 /\ entry.prepay_risk[i] =
                       TableRateAt(prepayment_risk_df, t, entry.dates[i])

SameLookupFromOtherForm ==
    risk_lookup = CreateOptimizedRiskLookup(AsFrame(OtherForm(cost_risk_df)),
                                            AsFrame(OtherForm(prepayment_risk_df)))

----------------------------------------------------------------------------
(* Claims on the fixed-assumption enrichment *)

\* a bucket whose task fails: it holds a loan whose interest rate is a text
HasTextRate(t) ==
    \E i \in 1..Len(combined_with_risks[t]) : combined_with_risks[t][i].rate.k = "str"

\* a bucket whose task returns a table of at least one enriched loan
EnrichesLoans(t) == combined_with_risks[t] # <<>> /\ ~HasTextRate(t)

\* C4 as the specification states it: when the pipeline has returned and the
\* task of one bucket failed, the result still carries the enriched table of
\* every bucket whose task succeeded
C4_SucceededBucketsReturnedEnriched ==
    (epc = "returned" /\ \E t \in TypeIds : HasTextRate(t)) =>
        \A t \in TypeIds :
            ~HasTextRate(t) =>
                combined_with_fixed[t] = ProcessType(combined_with_risks[t], t)

\* C4 as the code behaves: the pipeline returns only after the four tasks have
\* finished; when the task of some bucket failed, the exception is raised out of
\* the join and the pipeline returns the four buckets as they were before the
\* enrichment, none of them enriched; when no task failed it returns the four
\* enriched tables, each computed from its own bucket
C4_FailureReturnsAllBucketsUnenriched ==
    epc = "returned" =>
        /\ \A t \in TypeIds : Settled(t)
        /\ (\E t \in TypeIds : HasTextRate(t)) =>
              /\ raised # "none"
              /\ combined_with_fixed = combined_with_risks
        /\ ~(\E t \in TypeIds : HasTextRate(t)) =>
              /\ raised = "none"
              /\ DOMAIN combined_with_fixed = TypeIds
              /\ \A t \in TypeIds :
                    combined_with_fixed[t] = ProcessType(combined_with_risks[t], t)

\* the pipeline has returned after the task of one bucket failed while the task
\* of another bucket had enriched its loans
C4_Witness ==
    /\ epc = "returned"
    /\ \E t, u \in TypeIds :
          /\ HasTextRate(t) /\ futures[t].state = "exception"
          /\ EnrichesLoans(u) /\ futures[u].state = "result"
          /\ futures[u].value # combined_with_risks[u]
          /\ combined_with_fixed[u] = combined_with_risks[u]

\* the tasks that hold a worker of the pool
RunningTasks == {t \in TypeIds : futures[t].state = "running"}

\* the fee a loan type has in the rates and fees table of bucket k
OwnFee(k, loan_type, column) ==
    MapThrough(RatesFeesDict(k, column), loan_type)

\* the value under type_k holds the loans of bucket k, in their order, each with
\* the fees of its loan type in the fee table of bucket k
FromOwnBucket(value, k) ==
    /\ Len(value) = Len(combined_with_risks[k])
    /\ \A i \in 1..Len(value) :
          /\ value[i].loan = combined_with_risks[k][i].loan
          /\ value[i].type = combined_with_risks[k][i].type
          /\ \A column \in FeeColumns :
                value[i][column] = OwnFee(k, value[i].type, column)

\* C20: enrich_loans_with_fixed_assumptions_parallel dispatches one task per
\* numbered bucket 1-4 onto a pool of at most 4 workers and is left only after
\* the four tasks have finished; in every interleaving of the tasks each stored
\* result is that of its own bucket, and the result returned has exactly the keys
\* type_1..type_4 with the value under type_k computed from bucket k's loans and
\* bucket k's fee table only.
C20_OneTaskPerBucketJoinedBeforeReturn ==
    /\ DOMAIN futures = TypeIds
    /\ Cardinality(RunningTasks) <= MaxWorkers
    /\ epc \in {"join", "shutdown", "returned"} =>
          \A t \in TypeIds : futures[t].state # "unsubmitted"
    /\ epc = "returned" => \A t \in TypeIds : Settled(t)
    /\ \A t \in TypeIds :
          futures[t].state = "result" => FromOwnBucket(futures[t].value, t)
    /\ \A t \in DOMAIN enriched_loans : FromOwnBucket(enriched_loans[t], t)
    /\ (epc = "returned" /\ raised = "none") =>
          /\ DOMAIN combined_with_fixed = TypeIds
          /\ \A k \in TypeIds :
                /\ FromOwnBucket(combined_with_fixed[k], k)
                /\ combined_with_fixed[k] = ProcessType(combined_with_risks[k], k)

\* the function has returned the four tables, two of them with loans, whose
\* fees come from two different fee tables
C20_Witness ==
    /\ epc = "returned"
    /\ raised = "none"
    /\ combined_with_risks[1] # <<>>
    /\ combined_with_risks[2] # <<>>
    /\ combined_with_risks[1] # combined_with_risks[2]
    /\ combined_with_fixed[1][1].discount_rate # combined_with_fixed[2][1].discount_rate
    /\ \A t \in TypeIds : futures[t].state = "result"

\* the FX table has a row of the currency for the output currency, the tax table
\* a row of the currency, the fee dictionaries of bucket t an entry of the type
HasFxRow(cur) ==
    \E i \in 1..Len(FxTable) : FxTable[i].quote = cur /\ FxTable[i].base = OutputCurrency
HasTaxRow(cur) == \E i \in 1..Len(TaxTable) : TaxTable[i].currency = cur
HasFeeEntry(t, loan_type) ==
    \E i \in 1..Len(RatesFeesTable) :
        RatesFeesTable[i].type = loan_type /\ FeeCalculationType(loan_type) = ToString(t)

\* the fields of a loan that has its rows are the ones the tables give it
FieldsFromTables(t, loan) ==
    /\ HasFxRow(loan.currency) =>
          \E i \in 1..Len(FxTable) :
              /\ FxTable[i].quote = loan.currency /\ FxTable[i].base = OutputCurrency
              /\ loan.fx_rate = FxTable[i].rate
    /\ HasTaxRow(loan.currency) =>
          \E i \in 1..Len(TaxTable) :
              TaxTable[i].currency = loan.currency /\ loan.tax_rate = TaxTable[i].tax
    /\ HasFeeEntry(t, loan.type) =>
          \E i \in 1..Len(RatesFeesTable) :
              /\ RatesFeesTable[i].type = loan.type
              /\ \A column \in FeeColumns :
                    IsNa(loan[column]) = IsNa(RatesFeesTable[i][column])

\* the fields of a loan that misses a row are the defaults, the currency of a
\* loan being the value its 'Currency' cell holds
DefaultsOnMiss(t, loan) ==
    /\ (loan.currency # NoCurrency /\ ~HasFxRow(loan.currency)) =>
          loan.fx_rate = Num(100)
    /\ (loan.currency # NoCurrency /\ ~HasTaxRow(loan.currency)) =>
          loan.tax_rate = Num(0)
    /\ ~HasFeeEntry(t, loan.type) => \A column \in FeeColumns : loan[column] = NaN

ReturnedLoans ==
    {ti \in TypeIds \X (1..MaxBucketRows) : ti[2] <= Len(combined_with_fixed[ti[1]])}
CarriesEnrichment(loan) == "fx_rate" \in DOMAIN loan /\ "discount_rate" \in DOMAIN loan
NoEnrichmentField(loan) ==
    DOMAIN loan \cap ({"fx_rate", "tax_rate", "output_currency"} \cup FeeColumns) = {}

\* C30: the pipeline has three outcomes. A step before the enrichment raised: it
\* returns None, None, None and no loan table. Only the enrichment raised: it
\* returns the risk-annotated buckets, no loan of which has a field of the
\* enrichment. Otherwise it returns the four buckets, every loan enriched. It
\* never returns some buckets enriched and others not.
C30_NoneOrUnenrichedOrAllEnriched ==
    /\ epc = "aborted" =>
          /\ combined_with_fixed = None
          /\ \A t \in TypeIds : futures[t].state = "unsubmitted"
    /\ epc = "returned" =>
          /\ DOMAIN combined_with_fixed = TypeIds
          /\ \A t \in TypeIds : Len(combined_with_fixed[t]) = Len(combined_with_risks[t])
          /\ \/ /\ \E t \in TypeIds : futures[t].state = "exception"
                /\ combined_with_fixed = combined_with_risks
                /\ \A ti \in ReturnedLoans :
                      NoEnrichmentField(combined_with_fixed[ti[1]][ti[2]])
             \/ /\ \A t \in TypeIds : futures[t].state = "result"
                /\ \A ti \in ReturnedLoans :
                      CarriesEnrichment(combined_with_fixed[ti[1]][ti[2]])
    /\ epc \notin {"aborted", "returned"} => combined_with_fixed = <<>>

\* the pipeline has returned two buckets with loans, none of them enriched,
\* although the task of one of the two had returned its enriched table
C30_Witness ==
    /\ epc = "returned"
    /\ \E t, u \in TypeIds :
          /\ futures[t].state = "exception"
          /\ futures[u].state = "result" /\ futures[u].value # <<>>
          /\ combined_with_fixed[t] # <<>> /\ combined_with_fixed[u] # <<>>
    /\ \A ti \in ReturnedLoans : NoEnrichmentField(combined_with_fixed[ti[1]][ti[2]])

----------------------------------------------------------------------------
(* Specifications *)

SegIdle ==
    /\ datatape_df = <<>>
    /\ has_past_due = FALSE
    /\ guarantees_df = <<>>
    /\ spc = "idle"
    /\ seg_locals = <<>>
    /\ complete_results = <<>>
    /\ combined_loans = <<>>

EnrichIdle ==
    /\ epc = "idle"
    /\ combined_with_risks = <<>>
    /\ futures = <<>>
    /\ enriched_loans = <<>>
    /\ join_pos = 0
    /\ raised = "none"
    /\ combined_with_fixed = <<>>

\* the risk-curve assignment of one bucket
RatesIdle ==
    /\ floating_df = <<>>
    /\ assumptions_dict = <<>>
    /\ fixed_df = <<>>
    /\ rates_pc = "idle"
    /\ floating_results = <<>>
    /\ fixed_results = <<>>

GridIdle ==
    /\ valuation_date = 0
    /\ max_maturity_date = 0
    /\ dates = <<>>
    /\ current = 0
    /\ grid_pc = "idle"

LookupIdle ==
    /\ cost_risk_df = <<>>
    /\ prepayment_risk_df = <<>>
    /\ lookup_pc = "idle"

NormIdle ==
    /\ source_value = NaN
    /\ normalized = NaN
    /\ renormalized = NaN
    /\ norm_pc = "idle"

LoaderIdle ==
    /\ df_sheet = <<>>
    /\ table_name = ""
    /\ table_dict = <<>>
    /\ loader_pc = "idle"

SpecRiskInit == RiskInit /\ SegIdle /\ EnrichIdle /\ RatesIdle /\ GridIdle /\ LoaderIdle /\ NormIdle /\ LookupIdle
SpecRisk == SpecRiskInit /\ [][RiskNext]_vars

\* the segmentation of a loan table and the combination of its numbered buckets
SpecSegInit == RiskIdle /\ SegInit /\ EnrichIdle /\ RatesIdle /\ GridIdle /\ LoaderIdle /\ NormIdle /\ LookupIdle
SpecSeg == SpecSegInit /\ [][SegNext]_vars

\* the fixed-assumption enrichment at the end of the pipeline
SpecEnrichInit ==
    RiskIdle /\ SegIdle /\ EnrichInit /\ RatesIdle /\ GridIdle /\ LoaderIdle /\ NormIdle /\ LookupIdle
SpecEnrich == SpecEnrichInit /\ [][EnrichNext]_vars

\* the rate curves of the floating and of the fixed loans
SpecRatesInit ==
    RiskIdle /\ SegIdle /\ EnrichIdle /\ RatesInit /\ GridIdle /\ LoaderIdle /\ NormIdle /\ LookupIdle
SpecRates == SpecRatesInit /\ [][RatesNext]_vars

\* the date grid of the assumption template
SpecGridInit ==
    RiskIdle /\ SegIdle /\ EnrichIdle /\ RatesIdle /\ GridInit /\ LoaderIdle /\ NormIdle /\ LookupIdle
SpecGrid == SpecGridInit /\ [][GridNext]_vars

\* the reading of one assumption table
SpecLoaderInit ==
    RiskIdle /\ SegIdle /\ EnrichIdle /\ RatesIdle /\ GridIdle /\ LoaderInit /\ NormIdle /\ LookupIdle
SpecLoader == SpecLoaderInit /\ [][LoaderNext]_vars

\* the percent normalization of one value, applied twice
SpecNormInit ==
    RiskIdle /\ SegIdle /\ EnrichIdle /\ RatesIdle /\ GridIdle /\ LoaderIdle /\ NormInit /\ LookupIdle
SpecNorm == SpecNormInit /\ [][NormNext]_vars

\* the building of the risk lookup from the two risk tables
SpecLookupInit ==
    RiskIdle /\ SegIdle /\ EnrichIdle /\ RatesIdle /\ GridIdle /\ LoaderIdle /\ NormIdle
    /\ LookupInit
SpecLookup == SpecLookupInit /\ [][LookupNext]_vars

====
